---------------------------- MODULE Spec2Model ----------------------------
(***************************************************************************)
(* Verification model of the probability core of the esports trading bot:  *)
(* SeriesState, MomentumTracker (core/v2/models_v2.py), the time curves    *)
(* and impact calculation (core/v2/impact_calculator_v2.py), the           *)
(* probability engine (core/v2/probability_engine_v2.py) and the first     *)
(* engine with its impact table (core/probability_engine.py,               *)
(* core/impact_calculator.py).                                             *)
(*                                                                         *)
(* Numbers.  The program computes with floats.  Here                       *)
(*   - probabilities, impacts and multipliers are integers in millionths   *)
(*     (0.02 is 20000); a product is floored to the next millionth;        *)
(*   - game time is an integer number of tenths of a minute (28.0 min is   *)
(*     280);                                                               *)
(*   - the series probability is an exact fraction <<num, den>> in lowest  *)
(*     terms, the single-game probability being k / ProbDen.               *)
(***************************************************************************)
EXTENDS Integers, Sequences, FiniteSets, TLC

VARIABLES
    \* ---- SeriesState (models_v2.py:373-491) and the arguments/results of
    \*      its pure operations
    format,          \* SeriesFormat value: 1, 3 or 5
    team1_wins,      \* SeriesState.team1_wins
    team2_wins,      \* SeriesState.team2_wins
    series_call      \* the last call of series_probability, as a sequence
                     \* of at most one record: the score it read, its
                     \* argument k (for k / ProbDen) and the value returned

series_vars == <<format, team1_wins, team2_wins, series_call>>

VARIABLES
    \* ---- ImpactCalculatorV2 / ProbabilityEngineV2 construction argument
    game,            \* "lol" or "dota": selects tables and time curve
    \* ---- the last two calls of time_curve, oldest first, each a record
    \*      of the argument (tenths of a minute) and the value returned
    curve_calls

curve_vars == <<curve_calls>>

VARIABLES
    \* ---- MomentumTracker (models_v2.py:254-366)
    mt_events,        \* events: sequence of [game_time, team, impact]
    mt_current_time   \* _current_time

momentum_vars == <<mt_events, mt_current_time>>

VARIABLES
    \* ---- ImpactCalculatorV2 (impact_calculator_v2.py:105-689)
    recent_events     \* _recent_events: sequence of [time, type, team]

impact_vars == <<recent_events>>

VARIABLES
    \* ---- ProbabilityEngineV2 (probability_engine_v2.py:64-695)
    current_prob,         \* _current_prob
    prior_prob,           \* _prior_prob
    engine_game_time,     \* _game_time
    confidence,           \* _confidence
    std_dev,              \* _std_dev
    team1_strength,       \* _team1_strength
    team2_strength,       \* _team2_strength
    events_processed,     \* _events_processed
    probability_history,  \* _probability_history: sequence of snapshots
    series_context,       \* _series_state: a sequence of at most one state
    snapshot              \* what the last engine operation returned: a
                          \* sequence of one ProbabilitySnapshot after an
                          \* update, empty after an operation returning None

engine_vars == <<current_prob, prior_prob, engine_game_time, confidence,
                 std_dev,
                 team1_strength, team2_strength, events_processed,
                 probability_history, series_context, snapshot>>

VARIABLES
    \* ---- which engine the run drives, and ProbabilityEngine
    \*      (probability_engine.py:27-386)
    engine_class,         \* "ProbabilityEngineV2" or "ProbabilityEngine"
    v1_current_prob,      \* ProbabilityEngine._current_prob
    v1_game_time,         \* ProbabilityEngine._game_time
    v1_reported           \* what its updates returned, in order
                          \* since the last reset, oldest first

v1_vars == <<engine_class, v1_current_prob, v1_game_time, v1_reported>>

VARIABLES
    \* ---- the argument of the last engine operation when that operation was
    \*      calculate_from_state: a sequence of one game state, else empty
    calc_state

VARIABLES
    \* ---- the edge and sizing layer (trading/edge_calculator.py,
    \*      trading/position_sizer.py, trading_bot_v2.py)
    bankroll,             \* PositionSizer.bankroll, dollars
    trade_call            \* the last call of the edge and sizing layer, its
                          \* arguments and what it returned: a sequence of
                          \* at most one record

trading_vars == <<bankroll, trade_call>>

VARIABLES
    \* ---- single functions of the engine applied on their own
    scaling_call          \* the last call of _apply_probability_scaling, its
                          \* arguments and what it returned: a sequence of
                          \* at most one record

VARIABLES
    \* ---- RiskManager (trading/risk_manager.py), money in cents
    risk_state,           \* RiskManager.state: the value of the TradingState
    current_equity,       \* RiskManager.current_equity
    risk_positions,       \* RiskManager.positions: market_id -> size * price,
                          \* 0 for a market that is not in the dictionary
    risk_open,            \* the market ids that are in RiskManager.positions
    total_exposure,       \* metrics.total_exposure
    daily_pnl,            \* metrics.daily_pnl
    daily_trades,         \* metrics.daily_trades
    hourly_trades,        \* metrics.hourly_trades
    current_drawdown,     \* metrics.current_drawdown, percent, <<num, den>>
    max_drawdown,         \* metrics.max_drawdown, percent, <<num, den>>
    peak_equity,          \* metrics.peak_equity
    trade_times,          \* how many entries _trade_times holds
    risk_call,            \* what the last check_trade returned: a sequence
                          \* of at most one record
    risk_steps,           \* how many calls of record_trade and close_position
                          \* the run has made
    emergency_stopped     \* emergency_stop has been called

risk_vars == <<risk_state, current_equity, risk_positions, risk_open,
               total_exposure, daily_pnl, daily_trades, hourly_trades,
               current_drawdown, max_drawdown, peak_equity, trade_times,
               risk_call, risk_steps, emergency_stopped>>

VARIABLES
    \* ---- PaperTrader (trading/paper_trader.py), money and prices as exact
    \*      fractions <<num, den>>, sizes in whole shares
    paper_bankroll,       \* PaperTrader.bankroll
    sizer_bankroll,       \* PaperTrader.position_sizer.bankroll
    paper_positions,      \* PaperTrader.positions: market_id -> Position,
                          \* the fields size, avg_price and current_price
    paper_open,           \* the market ids that are in PaperTrader.positions
    paper_trades,         \* PaperTrader.trades: market, side, size and price
    total_trades,         \* stats.total_trades
    total_volume,         \* stats.total_volume
    total_pnl,            \* stats.total_pnl
    winning_trades,       \* stats.winning_trades
    losing_trades,        \* stats.losing_trades
    largest_win,          \* stats.largest_win
    largest_loss,         \* stats.largest_loss
    last_trade_time,      \* the market ids that are in _last_trade_time
    paper_call            \* what the last call of execute_trade or
                          \* close_position returned: a sequence of at most
                          \* one record

paper_vars == <<paper_bankroll, sizer_bankroll, paper_positions, paper_open,
                paper_trades, total_trades, total_volume, total_pnl,
                winning_trades, losing_trades, largest_win, largest_loss,
                last_trade_time, paper_call>>

aux_vars == <<scaling_call, risk_vars, paper_vars>>

vars == <<series_vars, game, curve_vars, momentum_vars, impact_vars,
          engine_vars, v1_vars, calc_state, trading_vars, aux_vars>>

\* what an operation of one component leaves alone
engines == <<engine_vars, v1_vars, calc_state, trading_vars, aux_vars>>
series_frame == <<game, curve_vars, momentum_vars, impact_vars, engines>>
curve_frame == <<series_vars, game, momentum_vars, impact_vars, engines>>
momentum_frame == <<series_vars, game, curve_vars, impact_vars, engines>>
impact_frame == <<series_vars, game, curve_vars, momentum_vars, engines>>

-----------------------------------------------------------------------------
(* Bounds of the model *)

\* the single-game probabilities tried are k / ProbDen, k = 0..ProbDen
ProbDen == 20
\* record_game_win is called at most this many times in one behaviour
MaxRecorded == 5
\* the time curves are evaluated up to this many minutes of game time
MaxCurveMinutes == 90
\* add_event is not called while the momentum window holds this many events
MaxWindow == 3
\* calculate_impact is not called while _recent_events holds this many events
MaxRecent == 2
\* the engine makes no full recompute and no event update once the
\* probability history holds this many snapshots; the first engine makes no
\* update once it has returned this many probabilities since its reset
MaxHistory == 2
\* the engine takes no event and no fight once events_processed is this
MaxEvents == 2
\* set_team_prior and set_series_context are not called once the probability
\* history holds this many snapshots
MaxConfigured == 1
\* set_series_context is not called once std_dev (millionths) is this large
MaxStdDev == 160000

-----------------------------------------------------------------------------
(* Fixed point: One is 1.0 in millionths; Minute is one minute of game   *)
(* time in tenths of a minute                                            *)

One == 10^6
Minute == 10^1

Abs(x) == IF x < 0 THEN -x ELSE x
Min(a, b) == IF a < b THEN a ELSE b
Max(a, b) == IF a > b THEN a ELSE b

Games == {"lol", "dota"}

Sign(x) == IF x < 0 THEN -1 ELSE IF x > 0 THEN 1 ELSE 0

\* floor(a * b / One) for a, b >= 0, computed in parts so that no
\* intermediate value leaves 32 bits
MulMicro(a, b) ==
    LET a1 == a \div 1000  a0 == a % 1000
        b1 == b \div 1000  b0 == b % 1000
    IN  a1 * b1 + (a1 * b0 + a0 * b1 + (a0 * b0) \div 1000) \div 1000

\* the float product a * b of two signed values, rounded towards zero
Mul(a, b) == Sign(a) * Sign(b) * MulMicro(Abs(a), Abs(b))

\* floor(One * exp(-q)) for q = 0..14 and floor(One * exp(q)) for q = 0..6
ExpNegWhole == <<
    1000000, 367879, 135335, 49787, 18315,
    6737, 2478, 911, 335, 123,
    45, 16, 6, 2, 0 >>
ExpPosWhole == <<
    1000000, 2718281, 7389056, 20085536, 54598150,
    148413159, 403428793 >>
\* floor(One * exp(-r / 20)) and floor(One * exp(r / 20)) for r = 0..19
ExpNegFrac == <<
    1000000, 951229, 904837, 860707, 818730,
    778800, 740818, 704688, 670320, 637628,
    606530, 576949, 548811, 522045, 496585,
    472366, 449328, 427414, 406569, 386741 >>
ExpPosFrac == <<
    1000000, 1051271, 1105170, 1161834, 1221402,
    1284025, 1349858, 1419067, 1491824, 1568312,
    1648721, 1733253, 1822118, 1915540, 2013752,
    2117000, 2225540, 2339646, 2459603, 2585709 >>

\* math.exp(-x) for x >= 0 in millionths: exp(-q) * exp(-r/20) * exp(-d) with
\* x = q + r/20 + d, the last factor by its series up to the cubic term
ExpNeg(x) ==
    LET q == Min(x \div One, 14)
        r == (x % One) \div 50000
        d == x % 50000
        d2 == MulMicro(d, d)
        tail == One - d + d2 \div 2 - MulMicro(d2, d) \div 6
    IN  MulMicro(MulMicro(ExpNegWhole[q + 1], ExpNegFrac[r + 1]), tail)

\* math.exp(x) for x >= 0 in millionths, in the same way
ExpPos(x) ==
    LET q == x \div One
        r == (x % One) \div 50000
        d == x % 50000
        d2 == MulMicro(d, d)
        tail == One + d + d2 \div 2 + MulMicro(d2, d) \div 6
    IN  MulMicro(MulMicro(ExpPosWhole[q + 1], ExpPosFrac[r + 1]), tail)

\* math.exp(x), x in millionths
Exp(x) == IF x >= 0 THEN ExpPos(x) ELSE ExpNeg(-x)

\* floor(a * One / b), the float quotient a / b for 0 <= a and 0 < b, both
\* at most 2.1 (in millionths), computed in parts within 32 bits
DivMicro(a, b) ==
    ((a * 1000) \div b) * 1000 + (((a * 1000) % b) * 1000) \div b

-----------------------------------------------------------------------------
(* Exact fractions <<num, den>>, den > 0, kept in lowest terms *)

RECURSIVE Gcd(_, _)
Gcd(a, b) == IF b = 0 THEN a ELSE Gcd(b, a % b)

RatNorm(r) ==
    LET g == Gcd(Abs(r[1]), r[2])
    IN  <<r[1] \div g, r[2] \div g>>

RatMul(a, b) == RatNorm(<<a[1] * b[1], a[2] * b[2]>>)

RatAdd(a, b) ==
    LET l == (a[2] \div Gcd(a[2], b[2])) * b[2]
    IN  RatNorm(<<a[1] * (l \div a[2]) + b[1] * (l \div b[2]), l>>)

RatLess(a, b) ==
    LET l == (a[2] \div Gcd(a[2], b[2])) * b[2]
    IN  a[1] * (l \div a[2]) < b[1] * (l \div b[2])

RatLeq(a, b) == a = b \/ RatLess(a, b)

RatOne == <<1, 1>>
RatZero == <<0, 1>>

-----------------------------------------------------------------------------
(* SeriesState *)

Formats == {1, 3, 5}

\* SeriesState.games_to_win
GamesToWin(fmt) == IF fmt = 1 THEN 1 ELSE IF fmt = 3 THEN 2 ELSE 3

\* _calc_series_prob with the branches of the recursion exchanged
RECURSIVE CalcSeriesProbSwapped(_, _, _, _)
CalcSeriesProbSwapped(fmt, t1, t2, k) ==
    IF t1 >= GamesToWin(fmt) THEN RatOne
    ELSE IF t2 >= GamesToWin(fmt) THEN RatZero
    ELSE LET p_if_win  == CalcSeriesProbSwapped(fmt, t1 + 1, t2, k)
             p_if_lose == CalcSeriesProbSwapped(fmt, t1, t2 + 1, k)
         IN  RatAdd(RatMul(<<k, ProbDen>>, p_if_lose),
                    RatMul(<<ProbDen - k, ProbDen>>, p_if_win))

\* _calc_series_prob stopping one game early for team 1
RECURSIVE CalcSeriesProbEarly(_, _, _, _)
CalcSeriesProbEarly(fmt, t1, t2, k) ==
    IF t1 + 1 >= GamesToWin(fmt) THEN RatOne
    ELSE IF t2 >= GamesToWin(fmt) THEN RatZero
    ELSE LET p_if_win  == CalcSeriesProbEarly(fmt, t1 + 1, t2, k)
             p_if_lose == CalcSeriesProbEarly(fmt, t1, t2 + 1, k)
         IN  RatAdd(RatMul(<<k, ProbDen>>, p_if_win),
                    RatMul(<<ProbDen - k, ProbDen>>, p_if_lose))

\* SeriesState._calc_series_prob(t1, t2, p), p = k / ProbDen
RECURSIVE CalcSeriesProb(_, _, _, _)
CalcSeriesProb(fmt, t1, t2, k) ==
    IF t1 >= GamesToWin(fmt) THEN RatOne
    ELSE IF t2 >= GamesToWin(fmt) THEN RatZero
    ELSE LET p_if_win  == CalcSeriesProb(fmt, t1 + 1, t2, k)
             p_if_lose == CalcSeriesProb(fmt, t1, t2 + 1, k)
         IN  RatAdd(RatMul(<<k, ProbDen>>, p_if_win),
                    RatMul(<<ProbDen - k, ProbDen>>, p_if_lose))

\* SeriesState.is_series_over
IsSeriesOver ==
    team1_wins >= GamesToWin(format) \/ team2_wins >= GamesToWin(format)

\* SeriesState.series_winner
SeriesWinner ==
    IF team1_wins >= GamesToWin(format) THEN 1
    ELSE IF team2_wins >= GamesToWin(format) THEN 2
    ELSE 0

\* SeriesState(): the dataclass defaults, no call made yet
SeriesIdle ==
    /\ format = 5
    /\ team1_wins = 0
    /\ team2_wins = 0
    /\ series_call = <<>>

\* no call of the time curve made yet
CurveIdle == curve_calls = <<>>

\* MomentumTracker.__init__
MomentumIdle ==
    /\ mt_events = <<>>
    /\ mt_current_time = 0

\* ImpactCalculatorV2.__init__
ImpactIdle == recent_events = <<>>

\* ProbabilityEngineV2.__init__ (apart from its tracker and calculator)
EngineIdle ==
    /\ current_prob = 500000
    /\ prior_prob = 500000
    /\ engine_game_time = 0
    /\ confidence = 500000
    /\ std_dev = 150000
    /\ team1_strength = 1500
    /\ team2_strength = 1500
    /\ events_processed = 0
    /\ probability_history = <<>>
    /\ series_context = <<>>
    /\ snapshot = <<>>

\* ProbabilityEngine.__init__
V1Idle ==
    /\ v1_current_prob = 500000
    /\ v1_game_time = 0
    /\ v1_reported = <<>>

\* PositionSizer.__init__ with the configured bankroll, nothing called
TradingIdle ==
    /\ bankroll = 1000
    /\ trade_call = <<>>

\* the market ids of the trading layer
Markets == {"m1", "m2"}

\* RiskManager.__init__ with the default equity of 1000 dollars
InitialEquity == 100000

\* RiskManager(): as constructed, nothing called
RiskIdle ==
    /\ risk_state = "active"
    /\ current_equity = InitialEquity
    /\ risk_positions = [m \in Markets |-> 0]
    /\ risk_open = {}
    /\ total_exposure = 0
    /\ daily_pnl = 0
    /\ daily_trades = 0
    /\ hourly_trades = 0
    /\ current_drawdown = <<0, 1>>
    /\ max_drawdown = <<0, 1>>
    /\ peak_equity = InitialEquity
    /\ trade_times = 0
    /\ risk_call = <<>>
    /\ risk_steps = 0
    /\ emergency_stopped = FALSE

\* config.trading.initial_bankroll, dollars
InitialBankroll == 1000

\* a Position as _update_position creates it: size = 0, avg_price = 0
FlatPosition == [size |-> 0, avg_price |-> <<0, 1>>, current_price |-> <<0, 1>>]

\* PaperTrader(): as constructed, nothing called
PaperIdle ==
    /\ paper_bankroll = <<InitialBankroll, 1>>
    /\ sizer_bankroll = <<InitialBankroll, 1>>
    /\ paper_positions = [m \in Markets |-> FlatPosition]
    /\ paper_open = {}
    /\ paper_trades = <<>>
    /\ total_trades = 0
    /\ total_volume = <<0, 1>>
    /\ total_pnl = <<0, 1>>
    /\ winning_trades = 0
    /\ losing_trades = 0
    /\ largest_win = <<0, 1>>
    /\ largest_loss = <<0, 1>>
    /\ last_trade_time = {}
    /\ paper_call = <<>>

\* no function applied on its own yet, the risk manager and the paper
\* trader unused
AuxIdle ==
    /\ scaling_call = <<>>
    /\ RiskIdle
    /\ PaperIdle

\* both engines as constructed, the run driving neither, and the edge and
\* sizing layer unused
EnginesIdle ==
    /\ engine_class = "ProbabilityEngineV2"
    /\ EngineIdle
    /\ V1Idle
    /\ calc_state = <<>>
    /\ TradingIdle
    /\ AuxIdle

SeriesInit ==
    /\ format \in Formats
    /\ team1_wins = 0
    /\ team2_wins = 0
    /\ series_call = <<>>
    /\ game = "lol"
    /\ CurveIdle
    /\ MomentumIdle
    /\ ImpactIdle
    /\ EnginesIdle

\* SeriesState.series_probability(game_win_prob), game_win_prob = k / ProbDen
SeriesProbability(k) ==
    /\ series_call' = << [t1 |-> team1_wins, t2 |-> team2_wins, k |-> k,
                          value |-> CalcSeriesProb(format, team1_wins,
                                                   team2_wins, k)] >>
    /\ UNCHANGED <<format, team1_wins, team2_wins, series_frame>>

\* SeriesState.record_game_win(team): no check that the series is still open
RecordGameWin(team) ==
    /\ team1_wins + team2_wins < MaxRecorded
    /\ IF team = 1
       THEN /\ team1_wins' = team1_wins + 1
            /\ UNCHANGED team2_wins
       ELSE /\ team2_wins' = team2_wins + 1
            /\ UNCHANGED team1_wins
    /\ UNCHANGED <<format, series_call, series_frame>>

SeriesNext ==
    \/ \E k \in 0..ProbDen : SeriesProbability(k)
    \/ \E team \in {1, 2} : RecordGameWin(team)

SpecSeries == SeriesInit /\ [][SeriesNext]_vars

-----------------------------------------------------------------------------
(* Properties of SeriesState *)

Called == Len(series_call) = 1
Call == series_call[1]
CallUnfinished ==
    Call.t1 < GamesToWin(format) /\ Call.t2 < GamesToWin(format)

\* C2: whenever series_probability is called with team1_wins at the win
\* threshold it returns exactly 1, and whenever it is called with team2_wins
\* at the win threshold it returns exactly 0, for every format and every p.
C2_BoundaryAsClaimed ==
    Called =>
        /\ (Call.t1 >= GamesToWin(format) => Call.value = RatOne)
        /\ (Call.t2 >= GamesToWin(format) => Call.value = RatZero)

RECURSIVE Pow(_, _)
Pow(b, e) == IF e = 0 THEN 1 ELSE b * Pow(b, e - 1)

RECURSIVE Choose(_, _)
Choose(n, r) ==
    IF r = 0 \/ r = n THEN 1 ELSE Choose(n - 1, r - 1) + Choose(n - 1, r)

\* The probability that team 1, needing a more wins, gets them before team 2
\* gets its b, each game won independently with probability k / ProbDen:
\* the sum over j < b lost games of C(a-1+j, j) p^a (1-p)^j.
RECURSIVE FirstToWinNum(_, _, _, _)
FirstToWinNum(a, b, k, j) ==
    IF j >= b THEN 0
    ELSE Choose(a - 1 + j, j) * Pow(k, a) * Pow(ProbDen - k, j)
            * Pow(ProbDen, b - 1 - j)
         + FirstToWinNum(a, b, k, j + 1)

FirstToWin(a, b, k) ==
    RatNorm(<<FirstToWinNum(a, b, k, 0), Pow(ProbDen, a + b - 1)>>)

\* C3: for an unfinished score the value returned is the exact probability
\* that team 1 reaches the win threshold first (checked against the closed
\* form, not against the recursion itself); best-of-5 at 2-1 with p = 0.55
\* gives 0.7975 = 319/400.
C3_SeriesProbExact ==
    (Called /\ CallUnfinished) =>
        /\ Call.value = FirstToWin(GamesToWin(format) - Call.t1,
                                   GamesToWin(format) - Call.t2, Call.k)
        /\ (format = 5 /\ Call.t1 = 2 /\ Call.t2 = 1
              /\ Call.k * 20 = 11 * ProbDen)
           => Call.value = <<319, 400>>

C3_Witness ==
    /\ Called
    /\ format = 5 /\ Call.t1 = 2 /\ Call.t2 = 1
    /\ Call.k * 20 = 11 * ProbDen
    /\ Call.value = <<319, 400>>

\* C4: for a fixed format and unfinished score the value returned for p is
\* at most the value for any larger p and at least the value for any smaller
\* p, strictly so when both probabilities are strictly inside (0, 1).
C4_SeriesProbMonotone ==
    (Called /\ CallUnfinished) =>
        \A k2 \in 0..ProbDen :
            LET other == CalcSeriesProb(format, Call.t1, Call.t2, k2)
                inside == Call.k \in 1..(ProbDen - 1) /\ k2 \in 1..(ProbDen - 1)
            IN  /\ Call.k < k2 => RatLeq(Call.value, other)
                /\ k2 < Call.k => RatLeq(other, Call.value)
                /\ (inside /\ Call.k < k2) => RatLess(Call.value, other)
                /\ (inside /\ k2 < Call.k) => RatLess(other, Call.value)

C4_Witness ==
    /\ Called /\ CallUnfinished
    /\ format = 5 /\ Call.t1 = 1 /\ Call.t2 = 2
    /\ Call.k \in 1..(ProbDen - 1)
    /\ RatLess(RatZero, Call.value) /\ RatLess(Call.value, RatOne)

\* C5: after any sequence of record_game_win calls from 0-0 neither count
\* exceeds the win threshold, and once a count has reached the threshold the
\* score no longer changes.
C5_SeriesInvariantAsClaimed ==
    [][/\ team1_wins' <= GamesToWin(format)
       /\ team2_wins' <= GamesToWin(format)
       /\ IsSeriesOver =>
            (team1_wins' = team1_wins /\ team2_wins' = team2_wins)]_vars

-----------------------------------------------------------------------------
(* Time curves (impact_calculator_v2.py:206-251) *)

\* The minutes at which lol_time_curve / dota_time_curve change branch
LolBreakpoints == <<0, 10 * Minute, 25 * Minute, 40 * Minute>>
DotaBreakpoints == <<0, 12 * Minute, 30 * Minute, 50 * Minute>>

Breakpoints(g) == IF g = "lol" THEN LolBreakpoints ELSE DotaBreakpoints

\* The branch of the if-chain taken for `minutes`: 0 for minutes < 0, i for
\* the branch that starts at the i-th breakpoint
CurveBranch(g, minutes) ==
    LET bp == Breakpoints(g)
    IN  IF minutes < bp[1] THEN 0
        ELSE IF minutes < bp[2] THEN 1
        ELSE IF minutes < bp[3] THEN 2
        ELSE IF minutes < bp[4] THEN 3
        ELSE 4

\* The expression returned by branch i of lol_time_curve
LolBranchValue(i, minutes) ==
    CASE i = 0 -> 500000
      [] i = 1 -> 500000 + (minutes * 200000) \div (10 * Minute)
      [] i = 2 -> 700000 + ((minutes - 10 * Minute) * 400000) \div (15 * Minute)
      [] i = 3 -> 1100000 + ((minutes - 25 * Minute) * 300000) \div (15 * Minute)
      [] i = 4 -> Min(1500000,
                      1400000 + ((minutes - 40 * Minute) * 100000)
                                    \div (20 * Minute))

\* The expression returned by branch i of dota_time_curve
DotaBranchValue(i, minutes) ==
    CASE i = 0 -> 400000
      [] i = 1 -> 400000 + (minutes * 200000) \div (12 * Minute)
      [] i = 2 -> 600000 + ((minutes - 12 * Minute) * 400000) \div (18 * Minute)
      [] i = 3 -> 1000000 + ((minutes - 30 * Minute) * 200000) \div (20 * Minute)
      [] i = 4 -> Min(1200000,
                      1150000 + ((minutes - 50 * Minute) * 50000)
                                    \div (30 * Minute))

BranchValue(g, i, minutes) ==
    IF g = "lol" THEN LolBranchValue(i, minutes) ELSE DotaBranchValue(i, minutes)

\* ImpactCalculatorV2.lol_time_curve(minutes)
LolTimeCurve(minutes) == LolBranchValue(CurveBranch("lol", minutes), minutes)

\* ImpactCalculatorV2.dota_time_curve(minutes)
DotaTimeCurve(minutes) == DotaBranchValue(CurveBranch("dota", minutes), minutes)

\* self.time_curve, chosen in ImpactCalculatorV2.__init__
TimeCurve(g, minutes) ==
    IF g = "lol" THEN LolTimeCurve(minutes) ELSE DotaTimeCurve(minutes)

\* Game times tried: every whole minute from -1 to MaxCurveMinutes and the
\* tenths of a minute next to each breakpoint
CurveTimes ==
    {Minute * i : i \in -1..MaxCurveMinutes}
        \cup {LolBreakpoints[i] + d : i \in 1..4, d \in {-1, 1}}
        \cup {DotaBreakpoints[i] + d : i \in 1..4, d \in {-1, 1}}

CurveInit ==
    /\ game \in Games
    /\ curve_calls = <<>>
    /\ SeriesIdle
    /\ MomentumIdle
    /\ ImpactIdle
    /\ EnginesIdle

\* one call of self.time_curve(minutes)
CallTimeCurve(minutes) ==
    /\ curve_calls' =
          (IF Len(curve_calls) = 0 THEN <<>> ELSE <<curve_calls[Len(curve_calls)]>>)
              \o << [minutes |-> minutes, value |-> TimeCurve(game, minutes)] >>
    /\ UNCHANGED <<game, curve_frame>>

CurveNext == \E minutes \in CurveTimes : CallTimeCurve(minutes)

SpecCurve == CurveInit /\ [][CurveNext]_vars

\* C7: for both titles, of two calls of the time curve the one with the
\* smaller game time never returns the larger multiplier.
C7_MonotoneAsClaimed ==
    Len(curve_calls) = 2 =>
        /\ curve_calls[1].minutes < curve_calls[2].minutes
              => curve_calls[1].value <= curve_calls[2].value
        /\ curve_calls[2].minutes < curve_calls[1].minutes
              => curve_calls[2].value <= curve_calls[1].value

\* C8: for both titles, at every breakpoint minute the value returned (by
\* the branch starting there) equals the value the branch ending there has
\* at that minute.
C8_ContinuousAsClaimed ==
    Len(curve_calls) >= 1 =>
        LET c == curve_calls[Len(curve_calls)]
            i == CurveBranch(game, c.minutes)
        IN  (i >= 1 /\ c.minutes = Breakpoints(game)[i])
                => c.value = BranchValue(game, i - 1, c.minutes)

-----------------------------------------------------------------------------
(* MomentumTracker (models_v2.py:254-366) *)

\* MomentumTracker.__init__(decay_minutes = 3.0), in minutes
DecayMinutes == 3
Decay == DecayMinutes * Minute

\* cap of get_momentum_adjustment, 0.03
MomentumCap == 30000

\* the decay with the sign of the exponent lost: exp(age / decay_minutes)
ExpDecayGrowing(age) == Exp((age * One) \div Decay)

\* math.exp(-age / self.decay_minutes), age in tenths of a minute (negative
\* for an event later than _current_time)
ExpDecay(age) == Exp(((-age) * One) \div Decay)

\* one term of the sum in get_momentum_score: event.impact * decay * direction
ScoreTerm(event, now) ==
    LET age == now - event.game_time
        decay == ExpDecay(age)
        direction == IF event.team = 1 THEN 1 ELSE -1
    IN  Mul(event.impact, decay) * direction

RECURSIVE SumTerms(_, _, _)
SumTerms(events, now, i) ==
    IF i > Len(events) THEN 0
    ELSE ScoreTerm(events[i], now) + SumTerms(events, now, i + 1)

\* MomentumTracker.get_momentum_score for a tracker state
MomentumScore(events, now) ==
    IF Len(events) = 0 THEN 0 ELSE SumTerms(events, now, 1)

\* get_momentum_adjustment without the cap
MomentumAdjustmentUncapped(events, now) ==
    Mul(MomentumScore(events, now), 500000)

\* MomentumTracker.get_momentum_adjustment for a tracker state
MomentumAdjustment(events, now) ==
    Max(-MomentumCap, Min(MomentumCap, Mul(MomentumScore(events, now), 500000)))

\* MomentumTracker.get_momentum_state for a tracker state
MomentumStateOf(events, now) ==
    LET score == MomentumScore(events, now)
    IN  IF score > 50000 THEN "strong_t1"
        ELSE IF score > 20000 THEN "slight_t1"
        ELSE IF score < -50000 THEN "strong_t2"
        ELSE IF score < -20000 THEN "slight_t2"
        ELSE "neutral"

\* MomentumTracker._prune_old_events
PruneOldEvents(events, now) ==
    LET cutoff == now - Decay * 2
    IN  SelectSeq(events, LAMBDA e : e.game_time > cutoff)

\* The events list after MomentumTracker.add_event(game_time, _, team, impact)
EventsAfterAdd(events, game_time, team, impact) ==
    PruneOldEvents(
        Append(events, [game_time |-> game_time, team |-> team, impact |-> impact]),
        game_time)

\* get_momentum_score(), get_momentum_adjustment() of the tracker
GetMomentumScore == MomentumScore(mt_events, mt_current_time)
GetMomentumAdjustment == MomentumAdjustment(mt_events, mt_current_time)

\* Arguments of add_event tried: game times (any order), both teams, and
\* impacts from 0 (an even fight) to a large objective
MomentumTimes == {5 * Minute, 65, 10 * Minute, 13 * Minute}
MomentumImpacts == {0, 10000, 90000}

MomentumInit ==
    /\ MomentumIdle
    /\ game = "lol"
    /\ SeriesIdle
    /\ CurveIdle
    /\ ImpactIdle
    /\ EnginesIdle

\* MomentumTracker.add_event(game_time, event_type, team, impact)
AddEvent(game_time, team, impact) ==
    /\ Len(mt_events) < MaxWindow
    /\ mt_events' = EventsAfterAdd(mt_events, game_time, team, impact)
    /\ mt_current_time' = game_time
    /\ UNCHANGED momentum_frame

\* MomentumTracker.reset()
MomentumReset ==
    /\ mt_events' = <<>>
    /\ mt_current_time' = 0
    /\ UNCHANGED momentum_frame

MomentumNext ==
    \/ \E game_time \in MomentumTimes, team \in {1, 2},
          impact \in MomentumImpacts : AddEvent(game_time, team, impact)
    \/ MomentumReset

SpecMomentum == MomentumInit /\ [][MomentumNext]_vars

(* Properties of MomentumTracker *)

\* Whether the i-th recorded event is still in the window after the step,
\* and the position it then has
RetainedNext(i) == mt_events[i].game_time > mt_current_time' - Decay * 2
IndexNext(i) == Cardinality({m \in 1..i : RetainedNext(m)})

\* The contribution of the i-th recorded event to the score before the step
\* and after it (0 once the event has been pruned)
TermBefore(i) == ScoreTerm(mt_events[i], mt_current_time)
TermAfter(i) ==
    IF RetainedNext(i) /\ IndexNext(i) <= Len(mt_events')
       /\ mt_events'[IndexNext(i)] = mt_events[i]
    THEN ScoreTerm(mt_events'[IndexNext(i)], mt_current_time')
    ELSE 0

KeepsSign(i) ==
    IF mt_events[i].team = 1 THEN TermAfter(i) >= 0 ELSE TermAfter(i) <= 0

\* C9 as claimed: whenever a later add_event advances the clock, the
\* contribution of every recorded event strictly decreases in magnitude and
\* keeps its sign.
C9_DecayAsClaimed ==
    [][mt_current_time' > mt_current_time =>
         \A i \in 1..Len(mt_events) :
             /\ Abs(TermAfter(i)) < Abs(TermBefore(i))
             /\ KeepsSign(i)]_vars

\* C9 as amended: whenever a later add_event advances the clock, the
\* contribution of every recorded event with non-zero impact strictly
\* decreases in magnitude (to exactly 0 once it is pruned), an event with
\* impact 0 contributes 0 before and after, and no contribution changes sign.
C9_DecayNonZeroImpact ==
    [][mt_current_time' > mt_current_time =>
         \A i \in 1..Len(mt_events) :
             /\ mt_events[i].impact # 0
                   => Abs(TermAfter(i)) < Abs(TermBefore(i))
             /\ mt_events[i].impact = 0
                   => (TermAfter(i) = 0 /\ TermBefore(i) = 0)
             /\ ~RetainedNext(i) => TermAfter(i) = 0
             /\ KeepsSign(i)]_vars

\* a team-2 event of non-zero impact that the clock has advanced past and
\* that still contributes, with less than its impact
C9_Witness ==
    \E i \in 1..Len(mt_events) :
        /\ mt_events[i].team = 2
        /\ mt_events[i].impact > 0
        /\ mt_events[i].game_time < mt_current_time
        /\ ScoreTerm(mt_events[i], mt_current_time) < 0
        /\ ScoreTerm(mt_events[i], mt_current_time) > -mt_events[i].impact

\* C10: after any sequence of add_event calls get_momentum_adjustment() lies
\* in [-0.03, +0.03].
C10_MomentumCapped ==
    /\ GetMomentumAdjustment >= -MomentumCap
    /\ GetMomentumAdjustment <= MomentumCap

\* the cap binds: half the score is beyond 0.03
C10_Witness ==
    /\ Mul(GetMomentumScore, 500000) > MomentumCap
    /\ GetMomentumAdjustment = MomentumCap

\* C11: after every add_event, whatever the order of the event times, the
\* retained entries are in non-decreasing game-time order and none is at or
\* before the prune horizon, the current time minus twice the decay constant.
C11_WindowAsClaimed ==
    /\ \A i \in 1..Len(mt_events) - 1 :
          mt_events[i].game_time <= mt_events[i + 1].game_time
    /\ \A i \in 1..Len(mt_events) :
          mt_events[i].game_time > mt_current_time - Decay * 2

-----------------------------------------------------------------------------
(* ImpactCalculatorV2 (impact_calculator_v2.py:105-689)                   *)
(* Impacts and multipliers are in millionths, game time in tenths of a    *)
(* minute, gold in gold                                                    *)

\* LOL_BASE_IMPACTS and DOTA_BASE_IMPACTS, in the order the dicts are written;
\* the dragon type multipliers are entries of the same dict
LOL_BASE_IMPACTS == <<
    <<"kill", 6000>>, <<"kill_solo", 8000>>, <<"kill_first_blood", 10000>>,
    <<"tower_outer", 12000>>, <<"tower_inner", 18000>>,
    <<"tower_inhib", 28000>>, <<"tower_nexus", 20000>>,
    <<"tower_first", 20000>>,
    <<"dragon_1", 12000>>, <<"dragon_2", 16000>>, <<"dragon_3", 22000>>,
    <<"dragon_4_soul", 100000>>, <<"dragon_elder", 160000>>,
    <<"dragon_infernal", 1150000>>, <<"dragon_mountain", 1200000>>,
    <<"dragon_ocean", 1000000>>, <<"dragon_cloud", 900000>>,
    <<"dragon_hextech", 1050000>>, <<"dragon_chemtech", 1100000>>,
    <<"baron", 85000>>, <<"baron_steal", 120000>>,
    <<"herald_1", 18000>>, <<"herald_2", 22000>>,
    <<"inhibitor", 55000>>,
    <<"fight_base", 15000>>, <<"fight_per_kill", 12000>>,
    <<"fight_ace_bonus", 40000>> >>

DOTA_BASE_IMPACTS == <<
    <<"kill", 5000>>, <<"kill_solo", 7000>>, <<"kill_pickoff", 8000>>,
    <<"tower_t1", 12000>>, <<"tower_t2", 20000>>, <<"tower_t3", 32000>>,
    <<"tower_t4", 38000>>,
    <<"barracks_melee", 45000>>, <<"barracks_ranged", 35000>>,
    <<"barracks_mega", 140000>>,
    <<"roshan_1", 55000>>, <<"roshan_2", 75000>>, <<"roshan_3", 95000>>,
    <<"roshan_steal", 110000>>,
    <<"fight_base", 12000>>, <<"fight_per_kill", 10000>>,
    <<"fight_wipe_bonus", 35000>> >>

\* ImpactCalculatorV2.__init__: the table of the calculator's game
BaseImpacts(g) == IF g = "lol" THEN LOL_BASE_IMPACTS ELSE DOTA_BASE_IMPACTS

\* str.startswith
StartsWith(key, prefix) ==
    /\ Len(prefix) <= Len(key)
    /\ SubSeq(key, 1, Len(prefix)) = prefix

\* dict.get(key, default) on a table
TableGet(table, key, default) ==
    LET hits == {i \in 1..Len(table) : table[i][1] = key}
    IN  IF hits = {} THEN default
        ELSE table[CHOOSE i \in hits : TRUE][2]

\* the fallback of _get_base_impact for an event type no key starts with
UnknownImpact == 5000

\* every event type taken as unknown to the table
GetBaseImpactFlat(g, event_type) == UnknownImpact

\* ImpactCalculatorV2._get_base_impact: the entry of the event type, else
\* the first entry in dict order whose key starts with it, else 0.005
GetBaseImpact(g, event_type) ==
    LET table == BaseImpacts(g)
        direct == {i \in 1..Len(table) : table[i][1] = event_type}
        prefixed == {i \in 1..Len(table) : StartsWith(table[i][1], event_type)}
    IN  IF direct # {} THEN table[CHOOSE i \in direct : TRUE][2]
        ELSE IF prefixed # {}
             THEN table[CHOOSE i \in prefixed :
                            \A j \in prefixed : i <= j][2]
        ELSE UnknownImpact

\* EventContext() with the dataclass defaults (the fields the calculator
\* reads)
DefaultContext ==
    [ game_time |-> 15 * Minute,
      gold_diff |-> 0,
      killer_gold |-> 0,
      victim_gold |-> 0,
      is_soul_point |-> FALSE,
      is_contested |-> FALSE,
      is_steal |-> FALSE,
      recent_kills_for |-> 0,
      recent_kills_against |-> 0,
      recent_objectives_for |-> 0,
      towers_remaining_us |-> 11,
      inhibs_down_them |-> 0 ]

\* the gold-state factor of _get_context_multiplier (lines 520-538)
GoldFactor(our_gold_diff) ==
    IF our_gold_diff < -5000 THEN 1250000
    ELSE IF our_gold_diff < -2000 THEN 1120000
    ELSE IF our_gold_diff > 8000 THEN 750000
    ELSE IF our_gold_diff > 4000 THEN 880000
    ELSE One

\* the victim-value factor (lines 541-556); gold_ratio is victim_gold over
\* 300 + game_time * 400, compared here without the division
VictimFactor(event_type, context) ==
    LET avg_gold_at_time == Max(300 + context.game_time * 40, 1)
        vg == context.victim_gold
    IN  IF ~(StartsWith(event_type, "kill") /\ vg > 0) THEN One
        ELSE IF 2 * vg > 3 * avg_gold_at_time THEN 1200000
        ELSE IF 5 * vg > 6 * avg_gold_at_time THEN 1100000
        ELSE IF 10 * vg < 7 * avg_gold_at_time THEN 850000
        ELSE One

\* lines 520-523 with the else branch lost: the differential taken as it
\* is for either team
OurGoldDiffUnsigned(context, for_team) == context.gold_diff

\* lines 520-523
OurGoldDiff(context, for_team) ==
    IF for_team = 1 THEN context.gold_diff ELSE -context.gold_diff

\* ImpactCalculatorV2._get_context_multiplier: the factors multiplied into
\* mult in the order of the code
GetContextMultiplier(event_type, context, for_team) ==
    LET m1 == Mul(One, GoldFactor(OurGoldDiff(context, for_team)))
        m2 == Mul(m1, VictimFactor(event_type, context))
        m3 == IF context.inhibs_down_them > 0
                 /\ event_type \in {"baron", "dragon", "elder"}
              THEN Mul(m2, 1150000) ELSE m2
        m4 == IF context.towers_remaining_us <= 3
              THEN Mul(m3, 1100000) ELSE m3
        m5 == IF StartsWith(event_type, "dragon") /\ context.is_soul_point
              THEN Mul(m4, 1300000) ELSE m4
        m6 == IF context.is_contested THEN Mul(m5, 1150000) ELSE m5
    IN  IF context.is_steal THEN Mul(m6, 1350000) ELSE m6

\* an event counts towards a streak for 1.5 minutes (line 620)
StreakWindow == (3 * Minute) \div 2

\* the events of _recent_events that count towards a streak (lines 618-621)
RecentSameTeam(recent, context, for_team) ==
    Cardinality({i \in 1..Len(recent) :
                    /\ context.game_time - recent[i].time < StreakWindow
                    /\ recent[i].team = for_team})

\* ImpactCalculatorV2._get_momentum_multiplier
GetMomentumMultiplier(recent, context, for_team) ==
    LET recent_for == context.recent_kills_for + context.recent_objectives_for
        recent_against == context.recent_kills_against
        m1 == IF recent_for >= 3 /\ recent_against = 0 THEN 1150000
              ELSE IF recent_for >= 2 /\ recent_against <= 1 THEN 1080000
              ELSE IF recent_against >= 3 /\ recent_for = 0 THEN 1120000
              ELSE One
        recent_same_team == RecentSameTeam(recent, context, for_team)
    IN  IF recent_same_team >= 2
        THEN Mul(m1, One + recent_same_team * 30000)
        ELSE m1

\* ImpactCalculatorV2._calculate_confidence
ImpactConfidence(context) ==
    Min(950000,
        700000
        + (IF context.gold_diff # 0 THEN 50000 ELSE 0)
        + (IF context.game_time > 10 * Minute THEN 50000 ELSE 0)
        + (IF context.killer_gold > 0 \/ context.victim_gold > 0
           THEN 50000 ELSE 0)
        + (IF context.towers_remaining_us < 11 THEN 30000 ELSE 0))

\* ImpactCalculatorV2._track_event: append, then keep the last two minutes
TrackEvent(recent, game_time, event_type, team) ==
    LET appended == Append(recent, [time |-> game_time,
                                    type |-> event_type,
                                    team |-> team])
    IN  SelectSeq(appended, LAMBDA e : e.time > game_time - 2 * Minute)

\* ImpactCalculatorV2.calculate_impact, the ImpactResult it returns when
\* _recent_events is `recent`
ImpactResult(g, recent, event_type, context, for_team) ==
    LET base == GetBaseImpact(g, event_type)
        time_mult == TimeCurve(g, context.game_time)
        context_mult == GetContextMultiplier(event_type, context, for_team)
        momentum_mult == GetMomentumMultiplier(recent, context, for_team)
        final == Mul(Mul(Mul(base, time_mult), context_mult), momentum_mult)
    IN  [ base_impact |-> base,
          time_multiplier |-> time_mult,
          context_multiplier |-> context_mult,
          momentum_multiplier |-> momentum_mult,
          final_impact |-> IF for_team = 2 THEN -final ELSE final,
          confidence |-> ImpactConfidence(context) ]

\* ImpactCalculatorV2.calculate_fight_impact, the ImpactResult it returns
FightImpactResult(g, recent, kills_for, kills_against, context, for_team) ==
    LET net_kills == kills_for - kills_against
        total_kills == kills_for + kills_against
        table == BaseImpacts(g)
        base0 == TableGet(table, "fight_base", 15000)
                 + (Abs(net_kills) - 1)
                   * TableGet(table, "fight_per_kill", 12000)
        base == IF kills_for >= 5 \/ (kills_for >= 4 /\ total_kills >= 7)
                THEN base0 + TableGet(table, "fight_ace_bonus", 40000)
                ELSE base0
        time_mult == TimeCurve(g, context.game_time)
        context_mult == GetContextMultiplier("fight", context, for_team)
        momentum_mult == GetMomentumMultiplier(recent, context, for_team)
        final == Mul(Mul(Mul(base, time_mult), context_mult), momentum_mult)
        directed == IF net_kills < 0 THEN -final ELSE final
    IN  IF net_kills = 0
        THEN [ base_impact |-> 0,
               time_multiplier |-> One,
               context_multiplier |-> One,
               momentum_multiplier |-> One,
               final_impact |-> 0,
               confidence |-> 900000 ]
        ELSE [ base_impact |-> base,
               time_multiplier |-> time_mult,
               context_multiplier |-> context_mult,
               momentum_multiplier |-> momentum_mult,
               final_impact |-> IF for_team = 2 THEN -directed ELSE directed,
               confidence |-> 850000 ]

\* the event types and contexts fed to the calculator: a key of the table,
\* a prefix of keys, a type the table lacks, and the key of a dragon type
ImpactEventTypes == {"kill", "dragon", "elder", "dragon_mountain"}

ImpactContexts ==
    { [DefaultContext EXCEPT !.game_time = 8 * Minute],
      [DefaultContext EXCEPT !.game_time = 9 * Minute, !.gold_diff = -6000,
                             !.victim_gold = 6000],
      [DefaultContext EXCEPT !.game_time = 9 * Minute, !.gold_diff = 3000,
                             !.is_contested = TRUE],
      [DefaultContext EXCEPT !.game_time = 9 * Minute, !.gold_diff = 5000,
                             !.killer_gold = 4000],
      [DefaultContext EXCEPT !.game_time = 28 * Minute, !.gold_diff = 9000,
                             !.towers_remaining_us = 3,
                             !.inhibs_down_them = 1,
                             !.is_soul_point = TRUE],
      [DefaultContext EXCEPT !.game_time = 28 * Minute, !.gold_diff = -3000,
                             !.is_steal = TRUE,
                             !.recent_kills_for = 3] }

ImpactInit ==
    /\ game \in Games
    /\ ImpactIdle
    /\ SeriesIdle
    /\ CurveIdle
    /\ MomentumIdle
    /\ EnginesIdle

\* ImpactCalculatorV2.calculate_impact: returns ImpactResult(...) and tracks
\* the event
CalculateImpact(event_type, context, for_team) ==
    /\ Len(recent_events) < MaxRecent
    /\ recent_events' = TrackEvent(recent_events, context.game_time,
                                   event_type, for_team)
    /\ UNCHANGED <<game, impact_frame>>

\* ImpactCalculatorV2.reset
ImpactReset ==
    /\ recent_events' = <<>>
    /\ UNCHANGED <<game, impact_frame>>

ImpactNext ==
    \/ \E event_type \in ImpactEventTypes, context \in ImpactContexts,
          for_team \in {1, 2} :
            CalculateImpact(event_type, context, for_team)
    \/ ImpactReset

SpecImpact == ImpactInit /\ [][ImpactNext]_vars

-----------------------------------------------------------------------------
(* Properties of the impact calculation *)

\* the same event seen from the other side: the gold differential of the
\* context negated, and the teams of the remembered events exchanged
MirrorContext(context) == [context EXCEPT !.gold_diff = -@]
MirrorRecent(recent) ==
    [i \in 1..Len(recent) |-> [recent[i] EXCEPT !.team = 3 - @]]

FinalImpact(recent, event_type, context, for_team) ==
    ImpactResult(game, recent, event_type, context, for_team).final_impact

\* C6 as stated: for every event type and every context, whatever the
\* calculator remembers, the signed impact of the event credited to team 2
\* is the exact negation of its impact credited to team 1 with the same
\* context.
C6_SymmetryAsClaimed ==
    \A event_type \in ImpactEventTypes, context \in ImpactContexts :
        FinalImpact(recent_events, event_type, context, 2)
            = -FinalImpact(recent_events, event_type, context, 1)

\* C6 amended: the signed impact of an event credited to team 2 is the exact
\* negation of the impact of the mirrored event credited to team 1, that is
\* with the gold differential negated and the teams of the remembered
\* events exchanged; with the same context the two differ whenever the
\* comeback/snowball factor or the streak differs between the teams.
C6_SymmetryMirrored ==
    \A event_type \in ImpactEventTypes, context \in ImpactContexts :
        FinalImpact(recent_events, event_type, context, 2)
            = -FinalImpact(MirrorRecent(recent_events), event_type,
                           MirrorContext(context), 1)

\* C6's case: two events of team 2 are remembered and count as a streak for
\* a context with a gold lead, and the impact for team 2 is a loss for team
\* 1 that is not the negation of team 1's impact in the same context
C6_Witness ==
    \E event_type \in ImpactEventTypes, context \in ImpactContexts :
        /\ context.gold_diff # 0
        /\ RecentSameTeam(recent_events, context, 2) >= 2
        /\ FinalImpact(recent_events, event_type, context, 2) < 0
        /\ FinalImpact(recent_events, event_type, context, 2)
               # -FinalImpact(recent_events, event_type, context, 1)

\* C13: the base impact the table returns for an event lies strictly between
\* 0 and 0.5, whatever the event type (resolved by the specific key, then the
\* event type's fallback entry, then the unknown-event default); stated of
\* every event the calculator has looked up and tracked.
C13_LookupAsClaimed ==
    \A i \in 1..Len(recent_events) :
        /\ GetBaseImpact(game, recent_events[i].type) > 0
        /\ GetBaseImpact(game, recent_events[i].type) < 500000

-----------------------------------------------------------------------------
(* ProbabilityEngineV2 (probability_engine_v2.py:64-695)                  *)
(* Probabilities, log odds, confidences and deviations are in millionths  *)

\* thousandths of a millionth, the unit the logarithm is summed in
Nano == 10^9

\* floor(a * b / Nano) to within a few units for 0 <= a, b <= Nano, computed
\* in parts within 32 bits
MulNano(a, b) ==
    LET a1 == a \div 100000  a0 == a % 100000
        b1 == b \div 100000  b0 == b % 100000
    IN  a1 * b1 * 10 + (a1 * b0 + a0 * b1) \div 10000
        + ((a0 \div 10) * (b0 \div 10)) \div 10000000

\* floor(a * Nano / b) for 0 <= a < b <= 2 * One, by long division
DivNano(a, b) ==
    LET q1 == (a * 1000) \div b        r1 == (a * 1000) % b
        q2 == (r1 * 1000) \div b       r2 == (r1 * 1000) % b
        q3 == (r2 * 1000) \div b
    IN  q1 * One + q2 * 1000 + q3

\* ln 2 = 0.693147180560: its millionths and the rest in units of Nano
Ln2Micro == 693147
Ln2Nano == 181

\* how often z is doubled until it lies in (0.5, 1]
RECURSIVE Doublings(_)
Doublings(z) == IF z > One \div 2 THEN 0 ELSE 1 + Doublings(2 * z)

RECURSIVE Doubled(_)
Doubled(z) == IF z > One \div 2 THEN z ELSE Doubled(2 * z)

\* t + t^3 / 3 + t^5 / 5 + ... up to the power 15, power being t^n
RECURSIVE AtanhSeries(_, _, _)
AtanhSeries(power, t2, n) ==
    IF n > 15 THEN 0
    ELSE power \div n + AtanhSeries(MulNano(power, t2), t2, n + 2)

\* -math.log(z) for 0 < z <= 1, z and the result in millionths: z = m / 2^k
\* with m in (0.5, 1], -log(z) = k * ln 2 + 2 * atanh((1 - m) / (1 + m))
NegLog(z) ==
    IF z >= One THEN 0
    ELSE LET k == Doublings(z)
             m == Doubled(z)
             t == DivNano(One - m, One + m)
             rest == 2 * AtanhSeries(t, MulNano(t, t), 1)
         IN  k * Ln2Micro + (k * Ln2Nano + rest) \div 1000

\* ProbabilityEngineV2._prob_to_log_odds: log(p / (1 - p)) after the clamp
\* to [0.001, 0.999], as log(p) - log(1 - p)
ProbToLogOdds(prob) ==
    LET p == Max(1000, Min(999000, prob))
    IN  NegLog(One - p) - NegLog(p)

\* the least x, in millionths, at which math.exp(x) raises OverflowError
\* (709.782713)
ExpOverflow == 709782713

\* ProbabilityEngineV2._log_odds_to_prob: 1 / (1 + exp(-log_odds)), and
\* 0.001 when math.exp(-log_odds) overflows (the except branch); for
\* negative log odds the quotient is taken after multiplying through by
\* exp(log_odds), which keeps the values within 32 bits
LogOddsToProb(log_odds) ==
    IF log_odds <= -ExpOverflow THEN 1000
    ELSE IF log_odds >= 0
    THEN DivMicro(One, One + ExpNeg(log_odds))
    ELSE DivMicro(ExpNeg(-log_odds), One + ExpNeg(-log_odds))

\* ProbabilityEngineV2._elo_to_probability: 1 / (1 + 10 ** (-elo_diff / 400)),
\* with 10 ** x as exp(x * ln 10), ln 10 / 400 = 0.00575646
EloToProbability(elo_diff) ==
    LogOddsToProb(Sign(elo_diff) * ((Abs(elo_diff) * 575646) \div 100))

\* LOL_TIME_WEIGHTS looked up by _get_time_weight; Dota has no table and
\* every time weighs 1.0
GetTimeWeight(g, minutes) ==
    IF g # "lol" THEN One
    ELSE IF 0 <= minutes /\ minutes < 6 * Minute THEN 400000
    ELSE IF 6 * Minute <= minutes /\ minutes < 14 * Minute THEN 600000
    ELSE IF 14 * Minute <= minutes /\ minutes < 22 * Minute THEN 850000
    ELSE IF 22 * Minute <= minutes /\ minutes < 32 * Minute THEN One
    ELSE IF 32 * Minute <= minutes /\ minutes < 100 * Minute THEN 1150000
    ELSE One

\* LOL_COEFFICIENTS and DOTA_COEFFICIENTS
LOL_COEFFICIENTS ==
    [ gold_per_1k |-> 45000, kill |-> 25000, tower |-> 65000,
      dragon |-> 55000, dragon_soul |-> 350000, elder |-> 500000,
      baron_buff |-> 180000, baron_kill |-> 80000, inhibitor |-> 220000,
      herald |-> 40000 ]
DOTA_COEFFICIENTS ==
    [ gold_per_1k |-> 35000, kill |-> 18000, tower |-> 55000,
      barracks |-> 200000, mega_creeps |-> 550000, roshan |-> 100000,
      aegis |-> 120000 ]

Coefficients(g) == IF g = "lol" THEN LOL_COEFFICIENTS ELSE DOTA_COEFFICIENTS

\* ImpactCalculatorV2.get_game_phase
GetGamePhase(g, minutes) ==
    IF g = "lol"
    THEN IF minutes < 6 * Minute THEN "early_lane"
         ELSE IF minutes < 14 * Minute THEN "mid_lane"
         ELSE IF minutes < 20 * Minute THEN "early_mid"
         ELSE IF minutes < 28 * Minute THEN "mid_game"
         ELSE IF minutes < 35 * Minute THEN "late_mid"
         ELSE IF minutes < 45 * Minute THEN "late_game"
         ELSE "ultra_late"
    ELSE IF minutes < 10 * Minute THEN "early_lane"
         ELSE IF minutes < 18 * Minute THEN "mid_lane"
         ELSE IF minutes < 28 * Minute THEN "mid_game"
         ELSE IF minutes < 40 * Minute THEN "late_mid"
         ELSE IF minutes < 55 * Minute THEN "late_game"
         ELSE "ultra_late"

\* EnhancedGameState with the dataclass defaults (the fields the engine
\* reads)
DefaultGameState ==
    [ game_time_seconds |-> 0,
      team1_kills |-> 0, team2_kills |-> 0,
      team1_gold |-> 0, team2_gold |-> 0,
      team1_towers |-> 0, team2_towers |-> 0,
      team1_dragons |-> 0, team2_dragons |-> 0,
      team1_barons |-> 0, team2_barons |-> 0,
      team1_inhibs |-> 0, team2_inhibs |-> 0,
      team1_has_soul |-> FALSE, team2_has_soul |-> FALSE,
      team1_has_elder |-> FALSE, team2_has_elder |-> FALSE,
      team1_has_baron |-> FALSE, team2_has_baron |-> FALSE,
      team1_roshan |-> 0, team2_roshan |-> 0,
      team1_has_aegis |-> FALSE, team2_has_aegis |-> FALSE,
      team1_rax |-> 0, team2_rax |-> 0 ]

\* EnhancedGameState.game_time_minutes, in tenths of a minute
GameTimeMinutes(state) == state.game_time_seconds \div 6

\* the sign of an either-or bonus: +1 for team 1, else -1 for team 2
Either(has1, has2) == IF has1 THEN 1 ELSE IF has2 THEN -1 ELSE 0

\* obj_contrib of calculate_from_state before the time weight (lines 292-338)
ObjectiveContrib(g, state) ==
    LET c == Coefficients(g)
    IN  IF g = "lol"
        THEN c.dragon * (state.team1_dragons - state.team2_dragons)
             + c.dragon_soul * Either(state.team1_has_soul, state.team2_has_soul)
             + c.elder * Either(state.team1_has_elder, state.team2_has_elder)
             + c.baron_buff * Either(state.team1_has_baron, state.team2_has_baron)
             + c.baron_kill * (state.team1_barons - state.team2_barons)
             + c.inhibitor * (state.team1_inhibs - state.team2_inhibs)
        ELSE c.roshan * (state.team1_roshan - state.team2_roshan)
             + c.aegis * Either(state.team1_has_aegis, state.team2_has_aegis)
             + c.barracks * (state.team1_rax - state.team2_rax)

\* the components dict of calculate_from_state (lines 273-346), momentum
\* being the tracker's adjustment at the call
Components(g, state, momentum) ==
    LET c == Coefficients(g)
        time_weight == GetTimeWeight(g, GameTimeMinutes(state))
        gold_diff == state.team1_gold - state.team2_gold
        kill_diff == state.team1_kills - state.team2_kills
        tower_diff == state.team1_towers - state.team2_towers
    IN  [ gold |-> Mul(Sign(gold_diff)
                       * ((c.gold_per_1k * Abs(gold_diff)) \div 1000),
                       time_weight),
          kills |-> Mul(c.kill * kill_diff, time_weight),
          towers |-> Mul(c.tower * tower_diff, time_weight),
          objectives |-> Mul(ObjectiveContrib(g, state), time_weight),
          momentum |-> momentum ]

\* the clamps of the three updates left out
ClampProbNone(prob) == prob

\* max(0.02, min(0.98, prob)) (lines 355, 424, 497)
ClampProb(prob) == Max(20000, Min(980000, prob))

\* a scaling that falls off in a straight line down to nothing at the ends
ApplyLinearScaling(impact, prob) ==
    LET distance == Abs(prob - 500000)
    IN  Mul(impact, One - 2 * distance)

\* ProbabilityEngineV2._apply_probability_scaling
ApplyProbabilityScaling(impact, prob) ==
    LET distance == Abs(prob - 500000)
        scale == Max(400000, One - Mul(Mul(distance, distance), 2 * One))
    IN  Mul(impact, scale)

\* ProbabilityEngineV2._calculate_confidence: <<confidence, std_dev>>
CalculateConfidence(state, components, processed) ==
    LET minutes == GameTimeMinutes(state)
        time_conf == Min(500000 + minutes * 1200, 850000)
        total_signal == Abs(components.gold) + Abs(components.kills)
                        + Abs(components.towers) + Abs(components.objectives)
                        + Abs(components.momentum)
        lead_conf == Min(500000 + Mul(total_signal, 800000), 900000)
        event_conf == Min(500000 + processed * 10000, 850000)
        time_reduction == Min(minutes * 300, 80000)
        event_reduction == Min(processed * 2000, 40000)
    IN  << (time_conf + lead_conf + event_conf) \div 3,
           Max(30000, 150000 - time_reduction - event_reduction) >>

\* the 90% interval around a probability (lines 364-365, 443-444, 511-512)
LowerBound(prob, std) == Max(10000, prob - Mul(1645000, std))
UpperBound(prob, std) == Min(990000, prob + Mul(1645000, std))

\* SeriesState.is_match_point_against of a series state
IsMatchPointAgainst(series_state) ==
    \/ GamesToWin(series_state.format) - series_state.team1_wins = 1
    \/ GamesToWin(series_state.format) - series_state.team2_wins = 1

\* what an operation of ProbabilityEngineV2 leaves alone outside the engine,
\* its tracker and its calculator
engine_frame == <<series_vars, game, curve_vars, v1_vars, trading_vars, aux_vars>>

\* the run drives ProbabilityEngineV2
DrivesV2 == engine_class = "ProbabilityEngineV2"

\* Inputs of the engine: rating pairs (both give priors outside
\* [0.02, 0.98]; 1500 against 1500 is the state after construction), a
\* series at match point, event types (the last unknown to the tables), the
\* contexts of events and of fights, fights <<kills_team1, deaths_team1>>
\* and game states
EngineRatings == {<<2200, 1500>>, <<1500, 2200>>}

EngineSeriesStates ==
    { [format |-> 3, team1_wins |-> 1, team2_wins |-> 0] }

EngineEventTypes == {"kill", "baron", "elder"}

EngineContexts ==
    { [DefaultContext EXCEPT !.game_time = 28 * Minute] }

EngineFightContexts ==
    { [DefaultContext EXCEPT !.game_time = 30 * Minute, !.gold_diff = 5000] }

EngineFights == {<<3, 1>>, <<2, 2>>, <<0, 5>>}

EngineStates ==
    { [DefaultGameState EXCEPT !.game_time_seconds = 540,
                               !.team1_gold = 14000, !.team2_gold = 15000,
                               !.team1_kills = 2, !.team2_kills = 3],
      [DefaultGameState EXCEPT !.game_time_seconds = 1980,
                               !.team1_gold = 62000, !.team2_gold = 50000,
                               !.team1_kills = 15, !.team2_kills = 8,
                               !.team1_towers = 7, !.team2_towers = 2,
                               !.team1_dragons = 4, !.team1_has_soul = TRUE,
                               !.team1_barons = 1, !.team1_has_baron = TRUE,
                               !.team1_inhibs = 1,
                               !.team1_roshan = 2, !.team1_has_aegis = TRUE,
                               !.team1_rax = 2] }

EngineClasses == {"ProbabilityEngineV2", "ProbabilityEngine"}

EngineInit ==
    /\ game \in Games
    /\ engine_class \in EngineClasses
    /\ EngineIdle
    /\ V1Idle
    /\ calc_state = <<>>
    /\ TradingIdle
    /\ AuxIdle
    /\ MomentumIdle
    /\ ImpactIdle
    /\ SeriesIdle
    /\ CurveIdle

\* ProbabilityEngineV2.set_team_prior
SetTeamPrior(t1_strength, t2_strength) ==
    /\ DrivesV2
    /\ calc_state' = <<>>
    /\ Len(probability_history) < MaxConfigured
    /\ team1_strength' = t1_strength
    /\ team2_strength' = t2_strength
    /\ prior_prob' = EloToProbability(t1_strength - t2_strength)
    /\ current_prob' = prior_prob'
    /\ snapshot' = <<>>
    /\ UNCHANGED <<engine_game_time, confidence, std_dev, events_processed,
                   probability_history, series_context,
                   momentum_vars, impact_vars, engine_frame>>

\* ProbabilityEngineV2.set_series_context
SetSeriesContext(series_state) ==
    /\ DrivesV2
    /\ calc_state' = <<>>
    /\ Len(probability_history) < MaxConfigured
    /\ std_dev < MaxStdDev
    /\ series_context' = <<series_state>>
    /\ std_dev' = IF IsMatchPointAgainst(series_state)
                  THEN Mul(std_dev, 1200000) ELSE std_dev
    /\ snapshot' = <<>>
    /\ UNCHANGED <<current_prob, prior_prob, engine_game_time, confidence,
                   team1_strength, team2_strength, events_processed,
                   probability_history,
                   momentum_vars, impact_vars, engine_frame>>

\* a reset of the engine's own fields that leaves its tracker and its
\* calculator as they are
ResetEngineOnly(keep_priors) ==
    /\ DrivesV2
    /\ calc_state' = <<>>
    /\ prior_prob' = IF keep_priors THEN prior_prob ELSE 500000
    /\ team1_strength' = IF keep_priors THEN team1_strength ELSE 1500
    /\ team2_strength' = IF keep_priors THEN team2_strength ELSE 1500
    /\ current_prob' = prior_prob'
    /\ engine_game_time' = 0
    /\ confidence' = 500000
    /\ std_dev' = 150000
    /\ events_processed' = 0
    /\ probability_history' = <<>>
    /\ snapshot' = <<>>
    /\ UNCHANGED <<series_context, engine_frame, momentum_vars, impact_vars>>

\* ProbabilityEngineV2.reset, with MomentumTracker.reset and
\* ImpactCalculatorV2.reset
Reset(keep_priors) ==
    /\ DrivesV2
    /\ calc_state' = <<>>
    /\ prior_prob' = IF keep_priors THEN prior_prob ELSE 500000
    /\ team1_strength' = IF keep_priors THEN team1_strength ELSE 1500
    /\ team2_strength' = IF keep_priors THEN team2_strength ELSE 1500
    /\ current_prob' = prior_prob'
    /\ engine_game_time' = 0
    /\ confidence' = 500000
    /\ std_dev' = 150000
    /\ events_processed' = 0
    /\ probability_history' = <<>>
    /\ mt_events' = <<>>
    /\ mt_current_time' = 0
    /\ recent_events' = <<>>
    /\ snapshot' = <<>>
    /\ UNCHANGED <<series_context, engine_frame>>

\* a ProbabilitySnapshot: team2_prob and the interval bounds follow from
\* team1_prob and std_dev in all three updates; parts holds the gold, the
\* objective and the momentum component
MakeSnapshot(timestamp, team1_prob, conf, std, prior, parts, processed) ==
    [ timestamp |-> timestamp,
      team1_prob |-> team1_prob,
      team2_prob |-> One - team1_prob,
      confidence |-> conf,
      std_dev |-> std,
      lower_bound |-> LowerBound(team1_prob, std),
      upper_bound |-> UpperBound(team1_prob, std),
      prior_prob |-> prior,
      gold_component |-> parts[1],
      objective_component |-> parts[2],
      momentum_component |-> parts[3],
      game_phase |-> GetGamePhase(game, timestamp),
      events_processed |-> processed ]

\* calculate_from_state starting from the current probability's log odds in
\* place of the prior's
StateProbabilityFromCurrent(prior, components) ==
    ClampProb(LogOddsToProb(ProbToLogOdds(current_prob)
                            + components.gold + components.kills
                            + components.towers + components.objectives
                            + components.momentum))

\* team1_prob of calculate_from_state: the prior's log odds plus the
\* components, back to a probability, clamped (lines 264-355)
StateProbability(prior, components) ==
    ClampProb(LogOddsToProb(ProbToLogOdds(prior)
                            + components.gold + components.kills
                            + components.towers + components.objectives
                            + components.momentum))

\* the snapshot calculate_from_state builds from the components
StateSnapshot(state, components, conf) ==
    MakeSnapshot(GameTimeMinutes(state),
                 StateProbability(prior_prob, components),
                 conf[1], conf[2], prior_prob,
                 <<components.gold, components.objectives,
                   components.momentum>>,
                 events_processed)

\* the snapshot calculate_from_state returns in the engine's state
FromStateSnapshot(state, components) ==
    StateSnapshot(state, components,
                  CalculateConfidence(state, components, events_processed))

\* ProbabilityEngineV2.calculate_from_state
CalculateFromState(state) ==
    /\ DrivesV2
    /\ calc_state' = <<state>>
    /\ Len(probability_history) < MaxHistory
    /\ \E snap \in {FromStateSnapshot(state,
                        Components(game, state, GetMomentumAdjustment))} :
        /\ engine_game_time' = GameTimeMinutes(state)
        /\ current_prob' = snap.team1_prob
        /\ confidence' = snap.confidence
        /\ std_dev' = snap.std_dev
        /\ probability_history' = Append(probability_history, snap)
        /\ snapshot' = <<snap>>
    /\ UNCHANGED <<prior_prob, team1_strength, team2_strength,
                   events_processed, series_context,
                   momentum_vars, impact_vars, engine_frame>>

\* new_prob of update_from_event and update_from_fight (lines 418-424 and
\* 491-497)
UpdatedProbability(final_impact) ==
    ClampProb(current_prob
              + ApplyProbabilityScaling(final_impact, current_prob))

\* the snapshot update_from_event builds, events being the tracker's events
\* after its add_event
EventSnapshot(context, impact_result, events) ==
    MakeSnapshot(context.game_time,
                 UpdatedProbability(impact_result.final_impact),
                 Mul(700000, confidence)
                 + Mul(300000, impact_result.confidence),
                 Max(30000, Mul(std_dev, 980000)),
                 prior_prob,
                 <<0, 0, MomentumAdjustment(events, context.game_time)>>,
                 events_processed + 1)

\* ProbabilityEngineV2.update_from_event, with
\* ImpactCalculatorV2.calculate_impact and MomentumTracker.add_event
UpdateFromEvent(event_type, team, context) ==
    /\ DrivesV2
    /\ calc_state' = <<>>
    /\ Len(probability_history) < MaxHistory
    /\ events_processed < MaxEvents
    /\ \E impact_result \in {ImpactResult(game, recent_events, event_type,
                                          context, team)} :
       \E events \in {EventsAfterAdd(mt_events, context.game_time, team,
                                     Abs(impact_result.final_impact))} :
       \E snap \in {EventSnapshot(context, impact_result, events)} :
        /\ engine_game_time' = context.game_time
        /\ recent_events' = TrackEvent(recent_events, context.game_time,
                                       event_type, team)
        /\ mt_events' = events
        /\ mt_current_time' = context.game_time
        /\ events_processed' = events_processed + 1
        /\ std_dev' = snap.std_dev
        /\ confidence' = snap.confidence
        /\ current_prob' = snap.team1_prob
        /\ probability_history' = Append(probability_history, snap)
        /\ snapshot' = <<snap>>
    /\ UNCHANGED <<prior_prob, team1_strength, team2_strength,
                   series_context, engine_frame>>

\* the snapshot update_from_fight builds: prior_prob and the components keep
\* the dataclass defaults
FightSnapshot(kills_team1, kills_team2, context, impact_result) ==
    MakeSnapshot(context.game_time,
                 UpdatedProbability(impact_result.final_impact),
                 confidence, std_dev, 500000, <<0, 0, 0>>,
                 events_processed + kills_team1 + kills_team2)

\* ProbabilityEngineV2.update_from_fight, with
\* ImpactCalculatorV2.calculate_fight_impact and MomentumTracker.add_event;
\* the snapshot is returned and not put into the history
UpdateFromFight(kills_team1, deaths_team1, context) ==
    /\ DrivesV2
    /\ calc_state' = <<>>
    /\ events_processed < MaxEvents
    /\ \E impact_result \in {FightImpactResult(game, recent_events,
                                 kills_team1, deaths_team1, context, 1)} :
       \E snap \in {FightSnapshot(kills_team1, deaths_team1, context,
                                  impact_result)} :
        /\ mt_events' = EventsAfterAdd(mt_events, context.game_time,
                            IF kills_team1 > deaths_team1 THEN 1 ELSE 2,
                            Mul(Abs(impact_result.final_impact), 1500000))
        /\ mt_current_time' = context.game_time
        /\ events_processed' = events_processed + kills_team1 + deaths_team1
        /\ current_prob' = snap.team1_prob
        /\ snapshot' = <<snap>>
    /\ UNCHANGED <<prior_prob, engine_game_time, confidence, std_dev,
                   team1_strength, team2_strength, probability_history,
                   series_context, impact_vars, engine_frame>>

-----------------------------------------------------------------------------
(* ImpactCalculator (core/impact_calculator.py): the table of the first  *)
(* engine, keyed by event type and context                               *)

\* LOL_IMPACTS and DOTA_IMPACTS: <<event type, context, base_impact>>
LOL_IMPACTS == <<
    <<"kill", "solo", 8000>>, <<"kill", "default", 6000>>,
    <<"kill", "shutdown", 15000>>, <<"kill", "first_blood", 12000>>,
    <<"tower", "outer", 15000>>, <<"tower", "inner", 20000>>,
    <<"tower", "inhibitor_tower", 30000>>, <<"tower", "nexus_tower", 25000>>,
    <<"tower", "first", 25000>>, <<"tower", "default", 18000>>,
    <<"dragon", "infernal", 18000>>, <<"dragon", "mountain", 20000>>,
    <<"dragon", "ocean", 15000>>, <<"dragon", "cloud", 12000>>,
    <<"dragon", "hextech", 16000>>, <<"dragon", "chemtech", 17000>>,
    <<"dragon", "default", 16000>>, <<"dragon", "soul", 120000>>,
    <<"dragon", "elder", 180000>>,
    <<"baron", "secure", 100000>>, <<"baron", "steal", 140000>>,
    <<"baron", "default", 100000>>,
    <<"herald", "default", 20000>>,
    <<"inhibitor", "default", 60000>>,
    <<"teamfight", "won_small", 30000>>, <<"teamfight", "won_big", 60000>>,
    <<"teamfight", "ace", 100000>> >>

DOTA_IMPACTS == <<
    <<"kill", "solo", 6000>>, <<"kill", "default", 5000>>,
    <<"kill", "pickoff", 8000>>,
    <<"tower", "tier1", 15000>>, <<"tower", "tier2", 22000>>,
    <<"tower", "tier3", 35000>>, <<"tower", "tier4", 40000>>,
    <<"tower", "default", 20000>>,
    <<"barracks", "melee", 50000>>, <<"barracks", "ranged", 40000>>,
    <<"barracks", "default", 45000>>, <<"barracks", "mega", 150000>>,
    <<"roshan", "first", 60000>>, <<"roshan", "second", 80000>>,
    <<"roshan", "third", 100000>>, <<"roshan", "steal", 120000>>,
    <<"roshan", "default", 70000>>,
    <<"teamfight", "won_small", 25000>>, <<"teamfight", "won_big", 50000>>,
    <<"teamfight", "wipe", 80000>> >>

\* LOL_TIME_MULTIPLIERS and DOTA_TIME_MULTIPLIERS: <<from, to, multiplier>>,
\* the bounds in minutes
LOL_TIME_MULTIPLIERS == <<
    <<0, 5, 600000>>, <<5, 10, 800000>>, <<10, 20, 1000000>>,
    <<20, 30, 1150000>>, <<30, 40, 1250000>>, <<40, 100, 1350000>> >>

DOTA_TIME_MULTIPLIERS == <<
    <<0, 10, 500000>>, <<10, 20, 700000>>, <<20, 30, 900000>>,
    <<30, 40, 1000000>>, <<40, 50, 1100000>>, <<50, 100, 1150000>> >>

\* ImpactCalculator.__init__: the tables of the calculator's game
Impacts(g) == IF g = "lol" THEN LOL_IMPACTS ELSE DOTA_IMPACTS
TimeMultipliers(g) ==
    IF g = "lol" THEN LOL_TIME_MULTIPLIERS ELSE DOTA_TIME_MULTIPLIERS

\* the entries of a table under a key
ImpactEntries(g, event_type, context) ==
    {i \in 1..Len(Impacts(g)) :
        Impacts(g)[i][1] = event_type /\ Impacts(g)[i][2] = context}

\* ImpactCalculator._get_time_multiplier: the first range holding the time,
\* else the last multiplier
GetTimeMultiplier(g, minutes) ==
    LET table == TimeMultipliers(g)
        hits == {i \in 1..Len(table) :
                    /\ table[i][1] * Minute <= minutes
                    /\ minutes < table[i][2] * Minute}
    IN  IF hits # {}
        THEN table[CHOOSE i \in hits : \A j \in hits : i <= j][3]
        ELSE table[Len(table)][3]

\* ImpactCalculator._get_probability_multiplier
GetProbabilityMultiplier(prob) == Max(500000, One - Abs(prob - 500000))

\* str.lower() on a string of ASCII characters, character by character: a
\* capital letter becomes its small letter, every other character is kept
RECURSIVE Lower(_)
Lower(string) ==
    LET capitals == "ABCDEFGHIJKLMNOPQRSTUVWXYZ"
        smalls == "abcdefghijklmnopqrstuvwxyz"
        first == SubSeq(string, 1, 1)
        hits == {i \in 1..Len(capitals) : SubSeq(capitals, i, i) = first}
        lowered == IF hits = {} THEN first
                   ELSE SubSeq(smalls, CHOOSE i \in hits : TRUE, CHOOSE i \in hits : TRUE)
    IN  IF Len(string) = 0 THEN string
        ELSE lowered \o Lower(SubSeq(string, 2, Len(string)))

\* ImpactCalculator.get_event_impact: the shift of the lower-cased key's
\* entry, of the event type's default entry when the key has none, 0.0 when
\* neither exists
GetEventImpact(g, event_type, context, minutes, prob) ==
    LET exact == ImpactEntries(g, Lower(event_type), Lower(context))
        fallback == ImpactEntries(g, Lower(event_type), "default")
        hits == IF exact # {} THEN exact ELSE fallback
    IN  IF hits = {} THEN 0
        ELSE Mul(Mul(Impacts(g)[CHOOSE i \in hits : TRUE][3],
                     GetTimeMultiplier(g, minutes)),
                 GetProbabilityMultiplier(prob))

\* base_impact of calculate_fight_impact by the deaths of the fight
FightBaseImpact(total_deaths) ==
    IF total_deaths >= 8 THEN 80000
    ELSE IF total_deaths >= 5 THEN 50000
    ELSE IF total_deaths >= 3 THEN 30000
    ELSE 15000

\* ImpactCalculator.calculate_fight_impact: the shift for team 1, fight
\* being <<kills_team1, deaths_team1, kills_team2, deaths_team2>>
CalculateFightImpact(g, fight, minutes, prob) ==
    LET net_team1 == fight[1] - fight[2]
        net_team2 == fight[3] - fight[4]
        kill_advantage == Max(net_team1, net_team2)
        impact == Mul(Mul(FightBaseImpact(fight[2] + fight[4])
                          + (kill_advantage - 1) * 8000,
                          GetTimeMultiplier(g, minutes)),
                      GetProbabilityMultiplier(prob))
    IN  IF net_team1 = net_team2 THEN 0
        ELSE IF net_team2 > net_team1 THEN -impact
        ELSE impact

-----------------------------------------------------------------------------
(* ProbabilityEngine (core/probability_engine.py)                        *)

\* Team and GameState (core/models.py) with the dataclass defaults, the
\* fields the engine reads
DefaultTeam ==
    [ kills |-> 0, gold |-> 0, towers |-> 0, dragons |-> 0, barons |-> 0,
      has_dragon_soul |-> FALSE, has_elder |-> FALSE,
      has_baron_buff |-> FALSE, net_worth |-> 0, roshan_kills |-> 0,
      has_aegis |-> FALSE ]

GameState(state_game, seconds, team1, team2) ==
    [ game |-> state_game, game_time_seconds |-> seconds,
      team1 |-> team1, team2 |-> team2 ]

\* GameState.gold_diff: gold in a LoL state, net worth otherwise
StateGoldDiff(state) ==
    IF state.game = "lol" THEN state.team1.gold - state.team2.gold
    ELSE state.team1.net_worth - state.team2.net_worth

\* gold_scale of ProbabilityEngine.__init__
GoldScale(g) == IF g = "lol" THEN 8000 ELSE 12000

\* ProbabilityEngine._sigmoid_adjustment: 2 / (1 + exp(-diff / scale)) - 1,
\* times 0.4.  math.exp raises OverflowError when -diff / scale passes the
\* largest argument of a double, and the sigmoid is then 1 or -1 by the sign
\* of diff.  |diff| / scale is taken as its whole part and its fraction (a
\* quotient beyond 15 has the exponential of 15, which is 0 or beyond every
\* millionth); 2 / (1 + e) - 1 is taken as twice 1 / (1 + e), less one.
SigmoidAdjustment(diff, scale) ==
    LET whole == Abs(diff) \div scale
        frac == DivMicro(Abs(diff) % scale, scale)
        raises == diff < 0 /\ (whole > 709 \/ whole * One + frac >= ExpOverflow)
        e == ExpNeg(Min(whole, 15) * One + frac)
        sigmoid ==
            IF raises THEN (IF diff > 0 THEN One ELSE -One)
            ELSE IF diff >= 0 THEN 2 * DivMicro(One, One + e) - One
            ELSE 2 * DivMicro(e, One + e) - One
    IN  Mul(sigmoid, 400000)

\* ProbabilityEngine._calculate_objective_adjustment
CalculateObjectiveAdjustment(g, state) ==
    IF g = "lol"
    THEN (state.team1.dragons - state.team2.dragons) * 15000
         + Either(state.team1.has_dragon_soul, state.team2.has_dragon_soul)
           * 100000
         + Either(state.team1.has_elder, state.team2.has_elder) * 150000
         + Either(state.team1.has_baron_buff, state.team2.has_baron_buff)
           * 60000
         + (state.team1.barons - state.team2.barons) * 20000
    ELSE (state.team1.roshan_kills - state.team2.roshan_kills) * 30000
         + Either(state.team1.has_aegis, state.team2.has_aegis) * 40000

\* ProbabilityEngine._get_time_factor
GetTimeFactor(minutes) ==
    IF minutes < 5 * Minute THEN 600000
    ELSE IF minutes < 10 * Minute
         THEN 700000 + (minutes - 5 * Minute) * (20000 \div Minute)
    ELSE IF minutes < 20 * Minute
         THEN 800000 + (minutes - 10 * Minute) * (20000 \div Minute)
    ELSE IF minutes < 30 * Minute
         THEN 1000000 + (minutes - 20 * Minute) * (15000 \div Minute)
    ELSE Min(1300000,
             1150000 + (minutes - 30 * Minute) * (10000 \div Minute))

\* ProbabilityEngine._calculate_confidence
V1CalculateConfidence(state, total_adj) ==
    LET time_conf == Min(500000 + GameTimeMinutes(state) * 1500, 850000)
        lead_conf == Min(500000 + Mul(Abs(total_adj), 1200000), 900000)
    IN  (time_conf + lead_conf) \div 2

\* the ProbabilityEstimate calculate_from_state returns (lines 128-177)
Estimate(g, state) ==
    LET gold_adj == SigmoidAdjustment(StateGoldDiff(state), GoldScale(g))
        kill_adj == (state.team1.kills - state.team2.kills) * 4000
        tower_adj == (state.team1.towers - state.team2.towers) * 15000
        obj_adj == CalculateObjectiveAdjustment(g, state)
        total_adj == Mul(gold_adj + kill_adj + tower_adj + obj_adj,
                         GetTimeFactor(GameTimeMinutes(state)))
        team1_prob == Max(20000, Min(980000, 500000 + total_adj))
    IN  [ team1_prob |-> team1_prob,
          team2_prob |-> One - team1_prob,
          confidence |-> V1CalculateConfidence(state, total_adj),
          base_prob |-> 500000,
          gold_adjustment |-> gold_adj,
          kill_adjustment |-> kill_adj,
          objective_adjustment |-> obj_adj + tower_adj ]

\* the probability update_from_event leaves and returns (lines 192-218)
EventProbability(g, event, minutes, prob) ==
    LET impact == GetEventImpact(g, event.event_type, event.context,
                                 minutes, prob)
    IN  Max(20000,
            Min(980000, prob + (IF event.team = 2 THEN -impact ELSE impact)))

\* the probability update_from_fight leaves and returns (lines 238-250)
FightProbability(g, fight, minutes, prob) ==
    Max(20000,
        Min(980000, prob + CalculateFightImpact(g, fight, minutes, prob)))

\* Inputs of the first engine: initial probabilities (two outside
\* [0.02, 0.98]), game times, events <<type, context>> (one with a context
\* the table lacks, one with a type the table lacks), fights and game states
\* (the last with a gold deficit at which math.exp overflows)
V1InitialProbs == {500000, 990000, 5000}
V1Times == {28 * Minute}
V1EventKinds ==
    {<<"kill", "solo">>, <<"Kill", "SOLO">>, <<"tower", "stolen">>,
     <<"ward", "default">>}
V1Fights == {<<3, 1, 1, 3>>, <<2, 2, 2, 2>>, <<0, 5, 5, 0>>}
V1States(g) ==
    { GameState(g, 540,
          [DefaultTeam EXCEPT !.kills = 2, !.gold = 14000,
                              !.net_worth = 14500],
          [DefaultTeam EXCEPT !.kills = 3, !.gold = 15000,
                              !.net_worth = 15500]),
      GameState(g, 1980,
          [DefaultTeam EXCEPT !.kills = 15, !.gold = 62000,
                              !.net_worth = 64000, !.towers = 7,
                              !.dragons = 4, !.has_dragon_soul = TRUE,
                              !.barons = 1, !.has_baron_buff = TRUE,
                              !.roshan_kills = 2, !.has_aegis = TRUE],
          [DefaultTeam EXCEPT !.kills = 8, !.gold = 50000,
                              !.net_worth = 51000, !.towers = 2]),
      GameState(g, 1200,
          [DefaultTeam EXCEPT !.kills = 1, !.gold = 20000,
                              !.net_worth = 20000],
          [DefaultTeam EXCEPT !.kills = 4, !.gold = 9020000,
                              !.net_worth = 9020000]) }

\* the run drives ProbabilityEngine
DrivesV1 == engine_class = "ProbabilityEngine"

\* what an operation of ProbabilityEngine leaves alone
v1_frame == <<series_vars, game, curve_vars, momentum_vars, impact_vars,
              engine_vars, engine_class, trading_vars, aux_vars>>

\* ProbabilityEngine.reset
V1Reset(initial_prob) ==
    /\ DrivesV1
    /\ calc_state' = <<>>
    /\ v1_current_prob' = initial_prob
    /\ v1_game_time' = 0
    /\ v1_reported' = <<>>
    /\ UNCHANGED v1_frame

\* ProbabilityEngine.update_game_time
V1UpdateGameTime(minutes) ==
    /\ DrivesV1
    /\ calc_state' = <<>>
    /\ v1_game_time' = minutes
    /\ UNCHANGED <<v1_current_prob, v1_reported, v1_frame>>

\* ProbabilityEngine.calculate_from_state
V1CalculateFromState(state) ==
    /\ DrivesV1
    /\ calc_state' = <<state>>
    /\ Len(v1_reported) < MaxHistory
    /\ \E estimate \in {Estimate(game, state)} :
        /\ v1_game_time' = GameTimeMinutes(state)
        /\ v1_current_prob' = estimate.team1_prob
        /\ v1_reported' = Append(v1_reported, estimate)
    /\ UNCHANGED v1_frame

\* ProbabilityEngine.update_from_event, with
\* ImpactCalculator.get_event_impact
V1UpdateFromEvent(event) ==
    /\ DrivesV1
    /\ calc_state' = <<>>
    /\ Len(v1_reported) < MaxHistory
    /\ \E prob \in {EventProbability(game, event, v1_game_time,
                                     v1_current_prob)} :
        /\ v1_current_prob' = prob
        /\ v1_reported' = Append(v1_reported, [team1_prob |-> prob])
    /\ UNCHANGED <<v1_game_time, v1_frame>>

\* ProbabilityEngine.update_from_fight, with
\* ImpactCalculator.calculate_fight_impact
V1UpdateFromFight(fight) ==
    /\ DrivesV1
    /\ calc_state' = <<>>
    /\ Len(v1_reported) < MaxHistory
    /\ \E prob \in {FightProbability(game, fight, v1_game_time,
                                     v1_current_prob)} :
        /\ v1_current_prob' = prob
        /\ v1_reported' = Append(v1_reported, [team1_prob |-> prob])
    /\ UNCHANGED <<v1_game_time, v1_frame>>

EngineNext ==
    \/ \E ratings \in EngineRatings : SetTeamPrior(ratings[1], ratings[2])
    \/ \E series_state \in EngineSeriesStates : SetSeriesContext(series_state)
    \/ \E keep_priors \in BOOLEAN : Reset(keep_priors)
    \/ \E state \in EngineStates : CalculateFromState(state)
    \/ \E event_type \in EngineEventTypes, team \in {1, 2},
          context \in EngineContexts :
            UpdateFromEvent(event_type, team, context)
    \/ \E fight \in EngineFights, context \in EngineFightContexts :
            UpdateFromFight(fight[1], fight[2], context)
    \/ \E initial_prob \in V1InitialProbs : V1Reset(initial_prob)
    \/ \E minutes \in V1Times : V1UpdateGameTime(minutes)
    \/ \E state \in V1States(game) : V1CalculateFromState(state)
    \/ \E kind \in V1EventKinds, team \in {1, 2} :
            V1UpdateFromEvent([event_type |-> kind[1], team |-> team,
                               context |-> kind[2]])
    \/ \E fight \in V1Fights : V1UpdateFromFight(fight)

SpecEngine == EngineInit /\ [][EngineNext]_vars

-----------------------------------------------------------------------------
(* Properties of the engine *)

\* C1: whatever the prior and whatever updates came before, the team1_prob
\* of the snapshot an update returns lies in [0.02, 0.98], and so does every
\* team1_prob recorded in the probability history; the same holds of every
\* probability an update of the first engine returns, whatever probability
\* its reset was given, the sigmoid of calculate_from_state at -1 after an
\* overflow included.
C1_ClampInvariant ==
    /\ \A i \in 1..Len(v1_reported) :
          /\ v1_reported[i].team1_prob >= 20000
          /\ v1_reported[i].team1_prob <= 980000
    /\ \A i \in 1..Len(snapshot) :
          /\ snapshot[i].team1_prob >= 20000
          /\ snapshot[i].team1_prob <= 980000
    /\ \A i \in 1..Len(probability_history) :
          /\ probability_history[i].team1_prob >= 20000
          /\ probability_history[i].team1_prob <= 980000

\* C1's case: the prior lies above 0.98 and an update has returned the
\* upper end of the range
C1_Witness ==
    /\ prior_prob > 980000
    /\ Len(snapshot) = 1
    /\ snapshot[1].team1_prob = 980000
    /\ snapshot[1].prior_prob = prior_prob

\* C12: calculate_from_state called again with the same game state, no other
\* operation in between, returns the snapshot it returned the first time
\* (team1_prob, confidence, std_dev, the components and every other field)
\* and leaves the engine's probability, confidence and deviation as they
\* were; the first engine returns the estimate it returned the first time
\* (team1_prob, team2_prob, confidence, base_prob and the three adjustments)
\* and keeps the same probability.
C12_RecomputeIdempotent ==
    [][ /\ \A state \in EngineStates :
            calc_state = <<state>> /\ CalculateFromState(state) =>
                /\ snapshot' = snapshot
                /\ <<current_prob, confidence, std_dev>>'
                       = <<current_prob, confidence, std_dev>>
        /\ \A state \in V1States(game) :
            calc_state = <<state>> /\ V1CalculateFromState(state) =>
                /\ v1_reported'[Len(v1_reported')]
                       = v1_reported[Len(v1_reported)]
                /\ v1_current_prob' = v1_current_prob ]_vars

\* C12's case: two calls in a row with one game state, made while the
\* momentum window holds an event, have put two equal snapshots into the
\* history
C12_Witness ==
    /\ calc_state # <<>>
    /\ Len(probability_history) = 2
    /\ probability_history[1] = probability_history[2]
    /\ snapshot = <<probability_history[2]>>
    /\ probability_history[1].momentum_component # 0
    /\ probability_history[1].gold_component # 0

\* an event type the V2 table has no key for and no key starting with
UnknownToTable(g, event_type) ==
    \A i \in 1..Len(BaseImpacts(g)) :
        ~StartsWith(BaseImpacts(g)[i][1], event_type)

\* an event type the first engine's table has under no context
UnknownToImpacts(g, event_type) ==
    \A i \in 1..Len(Impacts(g)) : Impacts(g)[i][1] # event_type

\* C14: an event whose type the impact table lacks is processed, receives a
\* small non-zero default impact, and the engine returns an in-range
\* probability for it; stated of both engines.
C14_UnknownAsClaimed ==
    [][ /\ \A event_type \in EngineEventTypes, team \in {1, 2},
              context \in EngineContexts :
            /\ UnknownToTable(game, event_type)
            /\ UpdateFromEvent(event_type, team, context)
            => /\ ImpactResult(game, recent_events, event_type, context,
                               team).final_impact # 0
               /\ snapshot'[1].team1_prob >= 20000
               /\ snapshot'[1].team1_prob <= 980000
        /\ \A kind \in V1EventKinds, team \in {1, 2} :
            /\ UnknownToImpacts(game, kind[1])
            /\ V1UpdateFromEvent([event_type |-> kind[1], team |-> team,
                                  context |-> kind[2]])
            => /\ GetEventImpact(game, kind[1], kind[2], v1_game_time,
                                 v1_current_prob) # 0
               /\ v1_current_prob' >= 20000
               /\ v1_current_prob' <= 980000 ]_vars

\* new_prob of update_from_event before the clamp (lines 418-421)
UnclampedProbability(final_impact) ==
    current_prob + ApplyProbabilityScaling(final_impact, current_prob)

\* the contexts of the scenario: game time 28 minutes, gold differential 0
BaronContexts ==
    {c \in EngineContexts : c.game_time = 28 * Minute /\ c.gold_diff = 0}

\* the rise of team1_prob a plain kill for team 1 in a context gives from
\* the current engine state
KillRise(context) ==
    UpdatedProbability(ImpactResult(game, recent_events, "kill", context,
                                    1).final_impact) - current_prob

\* C15 as stated: in a LoL engine, from whatever state, a Baron event for
\* team 1 at 28 minutes and gold differential 0 raises team1_prob by more
\* than 5 times what a plain kill for team 1 in the same context raises it
\* from that state.
C15_BaronAsClaimed ==
    [][ \A context \in BaronContexts :
            game = "lol" /\ UpdateFromEvent("baron", 1, context) =>
                snapshot'[1].team1_prob - current_prob
                    > 5 * KillRise(context) ]_vars

\* the clamp to [0.02, 0.98] changes neither the probability after the Baron
\* nor the probability after the kill
ClampIdle(context) ==
    \A event_type \in {"baron", "kill"} :
        LET unclamped == UnclampedProbability(
                ImpactResult(game, recent_events, event_type, context,
                             1).final_impact)
        IN  unclamped >= 20000 /\ unclamped <= 980000

\* C15: the same, for every engine state from which the clamp changes
\* neither of the two new probabilities.
C15_BaronUnclamped ==
    [][ \A context \in BaronContexts :
            /\ game = "lol"
            /\ ClampIdle(context)
            /\ UpdateFromEvent("baron", 1, context)
            => snapshot'[1].team1_prob - current_prob
                   > 5 * KillRise(context) ]_vars

\* C15's case: a Baron for team 1 at 28 minutes and gold differential 0 has
\* just been applied to a LoL engine that had already taken an update, and
\* the probability it returned is inside the clamp range
C15_Witness ==
    /\ game = "lol"
    /\ Len(snapshot) = 1
    /\ snapshot[1].timestamp = 28 * Minute
    /\ snapshot[1].team1_prob < 980000
    /\ snapshot[1].team1_prob > 500000
    /\ Len(probability_history) = 2
    /\ snapshot[1] = probability_history[2]
    /\ Len(recent_events) > 0
    /\ recent_events[Len(recent_events)].type = "baron"
    /\ recent_events[Len(recent_events)].team = 1


-----------------------------------------------------------------------------
(* The edge and sizing layer: ProbabilityEngineV2.calculate_edge          *)
(* (probability_engine_v2.py:538-595), EdgeCalculator                     *)
(* (trading/edge_calculator.py), PositionSizer                            *)
(* (trading/position_sizer.py) and TradingBotV2.evaluate_trade            *)
(* (trading_bot_v2.py:107-163).  Prices, edges, fractions and sizes are   *)
(* exact fractions.                                                       *)

RatNeg(a) == <<-a[1], a[2]>>
RatSub(a, b) == RatAdd(a, RatNeg(b))
\* a / b, b # 0
RatDiv(a, b) ==
    IF b[1] > 0 THEN RatNorm(<<a[1] * b[2], a[2] * b[1]>>)
    ELSE RatNorm(<<-(a[1] * b[2]), -(a[2] * b[1])>>)
RatMin(a, b) == IF RatLess(a, b) THEN a ELSE b
RatMax(a, b) == IF RatLess(b, a) THEN a ELSE b

\* n hundredths, n thousandths and a value in millionths, as fractions
Hundredths(n) == RatNorm(<<n, 100>>)
Thousandths(n) == RatNorm(<<n, 1000>>)
Rat(micro) == RatNorm(<<micro, One>>)

\* the recommendation ladder of calculate_edge and of evaluate_trade
Recommendation(edge) ==
    IF RatLess(Hundredths(5), edge) THEN "STRONG BUY"
    ELSE IF RatLess(Hundredths(2), edge) THEN "BUY"
    ELSE IF RatLess(Hundredths(1), edge) THEN "SLIGHT BUY"
    ELSE IF RatLess(edge, Hundredths(-5)) THEN "STRONG SELL"
    ELSE IF RatLess(edge, Hundredths(-2)) THEN "SELL"
    ELSE IF RatLess(edge, Hundredths(-1)) THEN "SLIGHT SELL"
    ELSE "HOLD"

\* EdgeCalculator.get_edge_quality
GetEdgeQuality(edge) ==
    IF RatLess(edge, Hundredths(1)) THEN "none"
    ELSE IF RatLess(edge, Hundredths(2)) THEN "marginal"
    ELSE IF RatLess(edge, Hundredths(3)) THEN "decent"
    ELSE IF RatLess(edge, Hundredths(5)) THEN "good"
    ELSE IF RatLess(edge, Hundredths(8)) THEN "great"
    ELSE "exceptional"

\* ProbabilityEngineV2.get_fair_price
GetFairPrice(for_team) ==
    IF for_team = 1 THEN Rat(current_prob)
    ELSE RatSub(RatOne, Rat(current_prob))

\* the Kelly fraction of calculate_edge before its cap at a quarter
EngineKelly(edge, market_price) ==
    IF RatLess(market_price, RatOne)
    THEN RatDiv(edge, RatSub(RatOne, market_price))
    ELSE RatZero

\* what ProbabilityEngineV2.calculate_edge returns for a fair price
EdgeOf(fair, market_price) ==
    LET edge == RatSub(fair, market_price)
    IN  [edge |-> edge,
         kelly_fraction |->
             IF RatLess(RatZero, edge)
             THEN RatMin(EngineKelly(edge, market_price), Hundredths(25))
             ELSE RatZero,
         recommendation |-> Recommendation(edge)]

\* Inputs of the layer: the engine's probability and confidence as the
\* updates of a game left them, the sizer's bankroll, market prices (0 and 1
\* among them), the team asked about.  No edge they give lies on a
\* threshold of a ladder or of a minimum, where the rounding of the source's
\* floating point decides the side.
TradingProbs == {500000, 560000}

\* the prior set_team_prior stores for ratings 2419.55 apart, above 0.98
UnclampedPrior == 995000
TradingConfidences == {500000, 800000}
Bankrolls == {1000, 400}
MarketPrices == { Thousandths(n) : n \in {0, 455, 500, 525, 950, 1000} }
Teams == {1, 2}

\* what a call of the layer leaves alone
trading_frame == <<series_vars, game, curve_vars, momentum_vars,
                   impact_vars, engine_vars, v1_vars, calc_state, bankroll,
                   aux_vars>>

\* ProbabilityEngineV2.calculate_edge
CalculateEdge(market_price, for_team) ==
    /\ trade_call' =
           << [op |-> "calculate_edge", market_price |-> market_price,
               for_team |-> for_team, raised |-> FALSE,
               result |-> EdgeOf(GetFairPrice(for_team), market_price)] >>
    /\ UNCHANGED trading_frame

\* ProbabilityEngineV2.get_confidence_adjusted_edge
GetConfidenceAdjustedEdge(market_price, for_team) ==
    /\ trade_call' =
           << [op |-> "get_confidence_adjusted_edge",
               market_price |-> market_price, for_team |-> for_team,
               raised |-> FALSE,
               result |-> RatMul(EdgeOf(GetFairPrice(for_team),
                                        market_price).edge,
                                 Rat(confidence))] >>
    /\ UNCHANGED trading_frame

-----------------------------------------------------------------------------
(* PositionSizer (trading/position_sizer.py:55-304)                      *)

\* the configuration the sizer reads (config/settings.py:39-73)
KellyMultiplier == Hundredths(25)
MaxBetPercent == Hundredths(5)
MinBetDollars == <<5, 1>>
MaxPosition == <<100, 1>>

\* a PositionSize that is not valid
InvalidSize(kelly_fraction, reason) ==
    [size_dollars |-> RatZero, size_shares |-> RatZero,
     size_percent |-> RatZero, kelly_fraction |-> kelly_fraction,
     is_valid |-> FALSE, reason |-> reason]

\* the full Kelly fraction with the gross odds in place of the net odds
KellyFullGrossOdds(win_probability, odds) ==
    RatDiv(RatSub(RatMul(odds, win_probability),
                  RatSub(RatOne, win_probability)), odds)

\* kelly_full of calculate_kelly_size: (b * p - q) / b, b = odds - 1 > 0
KellyFull(win_probability, odds) ==
    LET b == RatSub(odds, RatOne)
    IN  RatDiv(RatSub(RatMul(b, win_probability),
                      RatSub(RatOne, win_probability)), b)

\* calculate_kelly_size past its validation and its minimum bet: the shares,
\* cut to the room left under the maximum position
SizedPosition(roll, kelly_full, bet_percent, odds, current_position) ==
    LET bet_dollars == RatMul(<<roll, 1>>, bet_percent)
        implied_price == RatDiv(RatOne, odds)
        shares == RatDiv(bet_dollars, implied_price)
        room == RatSub(MaxPosition, current_position)
    IN  IF RatLess(MaxPosition, RatAdd(current_position, shares))
        THEN IF RatLeq(room, RatZero)
             THEN InvalidSize(kelly_full, "At maximum position")
             ELSE [size_dollars |-> RatMul(room, implied_price),
                   size_shares |-> room,
                   size_percent |-> RatDiv(RatMul(room, implied_price),
                                           <<roll, 1>>),
                   kelly_fraction |-> kelly_full,
                   is_valid |-> TRUE, reason |-> "sized"]
        ELSE [size_dollars |-> bet_dollars, size_shares |-> shares,
              size_percent |-> bet_percent, kelly_fraction |-> kelly_full,
              is_valid |-> TRUE, reason |-> "sized"]

\* PositionSizer.calculate_kelly_size with bankroll roll
KellySize(roll, win_probability, odds, conf, current_position) ==
    IF ~(RatLess(RatZero, win_probability) /\ RatLess(win_probability, RatOne))
    THEN InvalidSize(RatZero, "Invalid win probability")
    ELSE IF RatLeq(odds, RatOne)
    THEN InvalidSize(RatZero, "Invalid odds")
    ELSE LET kelly_full == KellyFull(win_probability, odds)
             kelly_adjusted == RatMul(RatMul(kelly_full, KellyMultiplier),
                                      conf)
             bet_percent == RatMin(kelly_adjusted, MaxBetPercent)
         IN  IF RatLeq(kelly_full, RatZero)
             THEN InvalidSize(kelly_full, "Negative edge")
             ELSE IF RatLess(RatMul(<<roll, 1>>, bet_percent), MinBetDollars)
             THEN InvalidSize(kelly_full, "Bet below minimum")
             ELSE SizedPosition(roll, kelly_full, bet_percent, odds,
                                current_position)

\* the fair price calculate_size_from_edge hands on as the win probability
ClampedFairPrice(edge, market_price) ==
    RatMax(Hundredths(1), RatMin(Hundredths(99), RatAdd(market_price, edge)))

\* PositionSizer.calculate_size_from_edge with bankroll roll, market_price # 0
SizeFromEdge(roll, edge, market_price, conf, current_position) ==
    KellySize(roll, ClampedFairPrice(edge, market_price),
              RatDiv(RatOne, market_price), conf, current_position)

\* Inputs of the sizer: win probabilities (one invalid), decimal odds (one
\* invalid), confidences (the first full), positions held in shares (the
\* last at the maximum), edges of a buy
WinProbabilities == { Hundredths(n) : n \in {0, 40, 52, 60, 99} }
OddsOffered == { <<2, 1>>, <<1, 1>>, <<4, 1>> }
Confidences == { RatOne, Hundredths(50) }
CurrentPositions == { <<0, 1>>, <<95, 1>>, <<100, 1>> }
Edges == { Hundredths(6), <<9, 200>>, Hundredths(-3) }

\* PositionSizer.calculate_kelly_size
CalculateKellySize(win_probability, odds, conf, current_position) ==
    /\ trade_call' =
           << [op |-> "calculate_kelly_size",
               win_probability |-> win_probability, odds |-> odds,
               confidence |-> conf, current_position |-> current_position,
               raised |-> FALSE,
               result |-> KellySize(bankroll, win_probability, odds, conf,
                                    current_position)] >>
    /\ UNCHANGED trading_frame

\* PositionSizer.calculate_size_from_edge: 1 / market_price raises
\* ZeroDivisionError at a market price of 0 and nothing is returned
CalculateSizeFromEdge(edge, market_price, conf, current_position) ==
    /\ trade_call' =
           << [op |-> "calculate_size_from_edge", edge |-> edge,
               market_price |-> market_price, confidence |-> conf,
               current_position |-> current_position,
               raised |-> (market_price = RatZero),
               result |-> IF market_price = RatZero THEN <<>>
                          ELSE << SizeFromEdge(bankroll, edge, market_price,
                                               conf, current_position) >>] >>
    /\ UNCHANGED trading_frame

-----------------------------------------------------------------------------
(* EdgeCalculator (trading/edge_calculator.py:55-269)                    *)

\* EdgeCalculator.min_edge and slippage_buffer
MinEdge == <<3, 200>>
SlippageBuffer == <<1, 200>>

\* an EdgeOpportunity
Opportunity(has_edge, side, edge, fair_price, market_price, conf, reason) ==
    [has_edge |-> has_edge, side |-> side, edge |-> edge,
     fair_price |-> fair_price, market_price |-> market_price,
     confidence |-> conf, reason |-> reason]

\* EdgeCalculator.calculate_edge past the choice of a side, conf # 0
ThresholdedEdge(side, edge, fair_price, market_price, conf) ==
    IF RatLess(edge, RatDiv(MinEdge, conf))
    THEN Opportunity(FALSE, side, edge, fair_price, market_price, conf,
                     "below minimum")
    ELSE IF RatLess(edge, SlippageBuffer)
    THEN Opportunity(FALSE, side, edge, fair_price, market_price, conf,
                     "below slippage buffer")
    ELSE Opportunity(TRUE, side, edge, fair_price, market_price, conf,
                     "opportunity")

\* the confidence by which calculate_edge divides its minimum edge: it
\* divides once a side with a positive edge is chosen
DividesByConfidence(fair_price, market_bid, market_ask) ==
    LET buy_edge == RatSub(fair_price, market_ask)
        sell_edge == RatSub(market_bid, fair_price)
    IN  /\ RatLess(RatZero, fair_price) /\ RatLess(fair_price, RatOne)
        /\ \/ RatLess(sell_edge, buy_edge) /\ RatLess(RatZero, buy_edge)
           \/ RatLess(buy_edge, sell_edge) /\ RatLess(RatZero, sell_edge)

\* EdgeCalculator.calculate_edge, conf # 0 where it divides by it
EdgeOpportunity(fair_price, market_bid, market_ask, conf) ==
    LET buy_edge == RatSub(fair_price, market_ask)
        sell_edge == RatSub(market_bid, fair_price)
        mid == RatDiv(RatAdd(market_bid, market_ask), <<2, 1>>)
    IN  IF ~(RatLess(RatZero, fair_price) /\ RatLess(fair_price, RatOne))
        THEN Opportunity(FALSE, "none", RatZero, fair_price, mid, RatZero,
                         "Invalid fair price")
        ELSE IF RatLess(sell_edge, buy_edge) /\ RatLess(RatZero, buy_edge)
        THEN ThresholdedEdge("BUY", buy_edge, fair_price, market_ask, conf)
        ELSE IF RatLess(buy_edge, sell_edge) /\ RatLess(RatZero, sell_edge)
        THEN ThresholdedEdge("SELL", sell_edge, fair_price, market_bid, conf)
        ELSE Opportunity(FALSE, "none", RatMax(buy_edge, sell_edge),
                         fair_price, mid, conf, "No positive edge")

\* Inputs of the calculator: fair prices (the last invalid) and confidences
\* (the last zero)
FairPrices == { Hundredths(n) : n \in {50, 52, 56, 100} }
EdgeConfidences == Confidences \cup {RatZero}

\* EdgeCalculator.calculate_edge_simple: min_edge / confidence raises
\* ZeroDivisionError at a confidence of 0 and nothing is returned
CalculateEdgeSimple(fair_price, market_price, conf) ==
    LET raises == /\ conf = RatZero
                  /\ DividesByConfidence(fair_price, market_price,
                                         market_price)
    IN  /\ trade_call' =
               << [op |-> "calculate_edge_simple", fair_price |-> fair_price,
                   market_price |-> market_price, confidence |-> conf,
                   raised |-> raises,
                   result |-> IF raises THEN <<>>
                              ELSE << EdgeOpportunity(fair_price,
                                          market_price, market_price,
                                          conf) >>] >>
        /\ UNCHANGED trading_frame

\* the edges get_edge_quality is asked about
QualityEdges == Edges \cup {Hundredths(9)}

\* a call of EdgeCalculator.get_edge_quality
CallGetEdgeQuality(edge) ==
    /\ trade_call' = << [op |-> "get_edge_quality", edge |-> edge,
                         raised |-> FALSE, result |-> GetEdgeQuality(edge)] >>
    /\ UNCHANGED trading_frame

-----------------------------------------------------------------------------
(* TradingBotV2 after setup_match (trading_bot_v2.py:32-163)             *)

BANKROLL == 100
MIN_EDGE == Hundredths(3)
MAX_POSITION == 10

\* SeriesState._calc_series_prob(t1, t2, p), p any fraction
RECURSIVE CalcSeriesProbOf(_, _, _, _)
CalcSeriesProbOf(fmt, t1, t2, p) ==
    IF t1 >= GamesToWin(fmt) THEN RatOne
    ELSE IF t2 >= GamesToWin(fmt) THEN RatZero
    ELSE RatAdd(RatMul(p, CalcSeriesProbOf(fmt, t1 + 1, t2, p)),
                RatMul(RatSub(RatOne, p),
                       CalcSeriesProbOf(fmt, t1, t2 + 1, p)))

\* TradingBotV2.get_fair_price
BotFairPrice(for_team) ==
    LET series_prob == CalcSeriesProbOf(format, team1_wins, team2_wins,
                                        Rat(current_prob))
    IN  IF for_team = 1 THEN series_prob ELSE RatSub(RatOne, series_prob)

\* what TradingBotV2.evaluate_trade returns and the signal it prints
TradeOf(fair, market_price) ==
    LET edge == RatSub(fair, market_price)
        kelly == IF RatLess(RatZero, edge) /\ RatLess(market_price, RatOne)
                 THEN RatMin(RatDiv(edge, RatSub(RatOne, market_price)),
                             Hundredths(25))
                 ELSE RatZero
    IN  IF RatLeq(MIN_EDGE, edge)
        THEN [edge |-> edge, action |-> "BUY",
              size |-> RatMin(RatMul(kelly, <<BANKROLL, 1>>),
                              <<MAX_POSITION, 1>>),
              signal |-> Recommendation(edge)]
        ELSE IF RatLeq(edge, RatNeg(MIN_EDGE))
        THEN [edge |-> edge, action |-> "SELL", size |-> RatZero,
              signal |-> Recommendation(edge)]
        ELSE [edge |-> edge, action |-> "HOLD", size |-> RatZero,
              signal |-> Recommendation(edge)]

\* TradingBotV2.evaluate_trade
EvaluateTrade(market_price, for_team) ==
    /\ trade_call' =
           << [op |-> "evaluate_trade", market_price |-> market_price,
               for_team |-> for_team, raised |-> FALSE,
               result |-> TradeOf(BotFairPrice(for_team), market_price)] >>
    /\ UNCHANGED trading_frame

-----------------------------------------------------------------------------
(* The layer on its own: the engine at some point of a game, the series  *)
(* of the bot not yet started, a sizer just constructed                  *)

TradingFormats == {3}

\* the score set_series_score is given
SeriesScores == {<<1, 0>>}

\* how many games the bot records in a run
MaxBotGames == 1

\* PositionSizer.update_bankroll
UpdateBankroll(new_bankroll) ==
    /\ bankroll' = new_bankroll
    /\ trade_call' = << [op |-> "update_bankroll",
                         new_bankroll |-> new_bankroll, raised |-> FALSE] >>
    /\ UNCHANGED <<series_vars, game, curve_vars, momentum_vars,
                   impact_vars, engine_vars, v1_vars, calc_state, aux_vars>>

\* TradingBotV2.set_series_score, the series being set up
SetSeriesScore(t1_wins, t2_wins) ==
    /\ team1_wins' = t1_wins
    /\ team2_wins' = t2_wins
    /\ trade_call' = << [op |-> "set_series_score", team1_wins |-> t1_wins,
                         team2_wins |-> t2_wins, raised |-> FALSE] >>
    /\ UNCHANGED <<format, series_call, game, curve_vars, momentum_vars,
                   impact_vars, engine_vars, v1_vars, calc_state, bankroll,
                   aux_vars>>

\* TradingBotV2.record_game_win: SeriesState.record_game_win(winner), then
\* ProbabilityEngineV2.reset(keep_priors = True) with the resets of the
\* tracker and of the calculator
BotRecordGameWin(winner) ==
    /\ team1_wins + team2_wins < MaxBotGames
    /\ IF winner = 1
       THEN /\ team1_wins' = team1_wins + 1
            /\ UNCHANGED team2_wins
       ELSE /\ team2_wins' = team2_wins + 1
            /\ UNCHANGED team1_wins
    /\ calc_state' = <<>>
    /\ current_prob' = prior_prob
    /\ engine_game_time' = 0
    /\ confidence' = 500000
    /\ std_dev' = 150000
    /\ events_processed' = 0
    /\ probability_history' = <<>>
    /\ mt_events' = <<>>
    /\ mt_current_time' = 0
    /\ recent_events' = <<>>
    /\ snapshot' = <<>>
    /\ trade_call' = << [op |-> "record_game_win", winner |-> winner,
                         raised |-> FALSE] >>
    /\ UNCHANGED <<prior_prob, team1_strength, team2_strength,
                   series_context, format, series_call, game, curve_vars,
                   v1_vars, bankroll, aux_vars>>

\* the engine at some point of a game between even teams, or just set up
\* for the ratings 2419.55 and 1500 (kept to the whole point), whose prior
\* set_team_prior stores as it is
TradingInit ==
    /\ game = "lol"
    /\ engine_class = "ProbabilityEngineV2"
    /\ \/ /\ current_prob \in TradingProbs
          /\ confidence \in TradingConfidences
          /\ prior_prob = 500000
          /\ team1_strength = 1500
       \/ /\ current_prob = UnclampedPrior
          /\ confidence = 500000
          /\ prior_prob = UnclampedPrior
          /\ team1_strength = 2420
    /\ team2_strength = 1500
    /\ engine_game_time = 0
    /\ std_dev = 150000
    /\ events_processed = 0
    /\ probability_history = <<>>
    /\ series_context = <<>>
    /\ snapshot = <<>>
    /\ AuxIdle
    /\ V1Idle
    /\ calc_state = <<>>
    /\ format \in TradingFormats
    /\ team1_wins = 0
    /\ team2_wins = 0
    /\ series_call = <<>>
    /\ CurveIdle
    /\ MomentumIdle
    /\ ImpactIdle
    /\ bankroll \in Bankrolls
    /\ trade_call = <<>>

TradingNext ==
    \/ \E market_price \in MarketPrices, for_team \in Teams :
           CalculateEdge(market_price, for_team)
    \/ \E market_price \in MarketPrices, for_team \in Teams :
           GetConfidenceAdjustedEdge(market_price, for_team)
    \/ \E fair_price \in FairPrices, market_price \in MarketPrices,
          conf \in EdgeConfidences :
           CalculateEdgeSimple(fair_price, market_price, conf)
    \/ \E edge \in QualityEdges : CallGetEdgeQuality(edge)
    \/ \E win_probability \in WinProbabilities, odds \in OddsOffered,
          conf \in Confidences, current_position \in CurrentPositions :
           CalculateKellySize(win_probability, odds, conf, current_position)
    \/ \E edge \in Edges, market_price \in MarketPrices,
          conf \in Confidences, current_position \in CurrentPositions :
           CalculateSizeFromEdge(edge, market_price, conf, current_position)
    \/ \E market_price \in MarketPrices, for_team \in Teams :
           EvaluateTrade(market_price, for_team)
    \/ \E new_bankroll \in Bankrolls : UpdateBankroll(new_bankroll)
    \/ \E score \in SeriesScores : SetSeriesScore(score[1], score[2])
    \/ \E winner \in Teams : BotRecordGameWin(winner)

SpecTrading == TradingInit /\ [][TradingNext]_vars

\* every call of the layer is recorded with its arguments and its result
TradingTypeOK ==
    /\ Len(trade_call) <= 1
    /\ bankroll \in Bankrolls

-----------------------------------------------------------------------------
(* Claims about the edge and sizing layer *)

\* the bands a recommendation ladder of the layer can give
Bands ==
    {"STRONG BUY", "BUY", "SLIGHT BUY", "HOLD", "SLIGHT SELL", "SELL",
     "STRONG SELL"}

\* C16: an edge of 0.06 against a market price of 0.50, at full confidence
\* as at any other, is put into the strongest band by every threshold
\* ladder of the layer.  Every edge above 0.05 that calculate_edge or
\* evaluate_trade computes, the edge of 0.06 at a market price of 0.50
\* among them, is recommended as "STRONG BUY", the first band of their
\* ladder (neither reads the confidence); calculate_edge_simple at full
\* confidence reports the edge of 0.06 at 0.50 as a BUY opportunity; and
\* get_edge_quality grades the edge of 0.06 as "exceptional", the strongest
\* of its labels.
C16_StrongestBandAsClaimed ==
    \A i \in 1..Len(trade_call) :
        /\ trade_call[i].op = "calculate_edge"
              => /\ trade_call[i].result.recommendation \in Bands
                 /\ RatLess(Hundredths(5), trade_call[i].result.edge)
                       => trade_call[i].result.recommendation = "STRONG BUY"
        /\ trade_call[i].op = "evaluate_trade"
              => /\ trade_call[i].result.signal \in Bands
                 /\ RatLess(Hundredths(5), trade_call[i].result.edge)
                       => trade_call[i].result.signal = "STRONG BUY"
        /\ trade_call[i].op = "calculate_edge_simple"
           /\ trade_call[i].fair_price = Hundredths(56)
           /\ trade_call[i].market_price = Hundredths(50)
           /\ trade_call[i].confidence = RatOne
              => /\ ~trade_call[i].raised
                 /\ trade_call[i].result[1].has_edge
                 /\ trade_call[i].result[1].side = "BUY"
                 /\ trade_call[i].result[1].edge = Hundredths(6)
        /\ trade_call[i].op = "get_edge_quality"
           /\ trade_call[i].edge = Hundredths(6)
              => trade_call[i].result = "exceptional"

RatAbs(a) == <<Abs(a[1]), a[2]>>

\* C17: every path that decides whether an edge is actionable compares the
\* edge times the confidence with its minimum edge: an opportunity that
\* calculate_edge_simple reports with has_edge, and a trade that
\* evaluate_trade answers with BUY or SELL, has an edge whose size times
\* the confidence (the argument of the calculator, the engine's confidence
\* for the bot) is at least the minimum edge of that path.
C17_ConfidenceScaledAsClaimed ==
    \A i \in 1..Len(trade_call) :
        /\ trade_call[i].op = "calculate_edge_simple"
           /\ ~trade_call[i].raised
           /\ trade_call[i].result[1].has_edge
              => RatLeq(MinEdge, RatMul(trade_call[i].result[1].edge,
                                        trade_call[i].confidence))
        /\ trade_call[i].op = "evaluate_trade"
           /\ trade_call[i].result.action \in {"BUY", "SELL"}
              => RatLeq(MIN_EDGE, RatMul(RatAbs(trade_call[i].result.edge),
                                         Rat(confidence)))

\* a call of calculate_size_from_edge for a buy with a positive edge at a
\* market price strictly between 0 and 1
BuyFromEdge(call) ==
    /\ call.op = "calculate_size_from_edge"
    /\ RatLess(RatZero, call.edge)
    /\ RatLess(RatZero, call.market_price)
    /\ RatLess(call.market_price, RatOne)

\* C18: for a buy with positive edge at a market price m in (0, 1) the
\* full Kelly fraction calculate_size_from_edge reports is edge / (1 - m),
\* the value calculate_edge computes before its cap.
C18_FullKellyAsClaimed ==
    \A i \in 1..Len(trade_call) :
        BuyFromEdge(trade_call[i])
           => /\ ~trade_call[i].raised
              /\ trade_call[i].result[1].kelly_fraction =
                     RatDiv(trade_call[i].edge,
                            RatSub(RatOne, trade_call[i].market_price))
              /\ trade_call[i].result[1].kelly_fraction =
                     EngineKelly(trade_call[i].edge,
                                 trade_call[i].market_price)

\* the clamp of the fair price to [0.01, 0.99] leaves market price plus
\* edge as it is
FairPriceUnclamped(edge, market_price) ==
    /\ RatLeq(Hundredths(1), RatAdd(market_price, edge))
    /\ RatLeq(RatAdd(market_price, edge), Hundredths(99))

\* C18 with the clamp: for a buy with positive edge at a market price m in
\* (0, 1) whose fair price m + edge lies in [0.01, 0.99], the full Kelly
\* fraction calculate_size_from_edge reports is edge / (1 - m), the value
\* calculate_edge computes before its cap; for every such edge that
\* calculate_edge itself returns the sizer reports edge / (1 - m), and
\* calculate_edge returns the smaller of that value and 0.25.  Outside the
\* range the sizer reports the full Kelly fraction of the clamped price,
\* (c - m) / (1 - m) with c the fair price brought into [0.01, 0.99].
C18_FullKellyUnclamped ==
    \A i \in 1..Len(trade_call) :
        /\ BuyFromEdge(trade_call[i])
           /\ FairPriceUnclamped(trade_call[i].edge,
                                 trade_call[i].market_price)
              => /\ ~trade_call[i].raised
                 /\ trade_call[i].result[1].kelly_fraction =
                        RatDiv(trade_call[i].edge,
                               RatSub(RatOne, trade_call[i].market_price))
                 /\ trade_call[i].result[1].kelly_fraction =
                        EngineKelly(trade_call[i].edge,
                                    trade_call[i].market_price)
        /\ BuyFromEdge(trade_call[i])
           /\ ~FairPriceUnclamped(trade_call[i].edge,
                                  trade_call[i].market_price)
              => /\ ~trade_call[i].raised
                 /\ trade_call[i].result[1].kelly_fraction =
                        RatDiv(RatSub(RatMax(Hundredths(1),
                                          RatMin(Hundredths(99),
                                              RatAdd(trade_call[i].market_price,
                                                     trade_call[i].edge))),
                                      trade_call[i].market_price),
                               RatSub(RatOne, trade_call[i].market_price))
        /\ trade_call[i].op = "calculate_edge"
           /\ RatLess(RatZero, trade_call[i].result.edge)
           /\ RatLess(RatZero, trade_call[i].market_price)
           /\ RatLess(trade_call[i].market_price, RatOne)
              => /\ FairPriceUnclamped(trade_call[i].result.edge,
                                       trade_call[i].market_price)
                    => SizeFromEdge(bankroll, trade_call[i].result.edge,
                                    trade_call[i].market_price, RatOne,
                                    <<0, 1>>).kelly_fraction =
                           EngineKelly(trade_call[i].result.edge,
                                       trade_call[i].market_price)
                 /\ trade_call[i].result.kelly_fraction =
                        RatMin(EngineKelly(trade_call[i].result.edge,
                                           trade_call[i].market_price),
                               Hundredths(25))

\* the engine holds a prior above 0.99 and calculate_edge has returned an
\* edge at the market price 0.95 whose fair price the sizer would clamp:
\* the sizer's full Kelly fraction for it is 4/5, the engine's 9/10
UnclampedEngineEdge ==
    /\ Len(trade_call) = 1
    /\ trade_call[1].op = "calculate_edge"
    /\ trade_call[1].market_price = Hundredths(95)
    /\ current_prob = UnclampedPrior
    /\ ~FairPriceUnclamped(trade_call[1].result.edge,
                           trade_call[1].market_price)
    /\ SizeFromEdge(bankroll, trade_call[1].result.edge,
                    trade_call[1].market_price, RatOne,
                    <<0, 1>>).kelly_fraction = <<4, 5>>
    /\ EngineKelly(trade_call[1].result.edge,
                   trade_call[1].market_price) = <<9, 10>>

\* calculate_size_from_edge has sized the edge 0.06 at the market price
\* 0.50 and reports the full Kelly fraction 0.06 / 0.50 = 3/25
C18_Witness ==
    /\ Len(trade_call) = 1
    /\ BuyFromEdge(trade_call[1])
    /\ trade_call[1].edge = Hundredths(6)
    /\ trade_call[1].market_price = Hundredths(50)
    /\ trade_call[1].result[1].is_valid
    /\ trade_call[1].result[1].kelly_fraction = <<3, 25>>

\* C19: every PositionSize that calculate_kelly_size returns as valid has
\* size_dollars at most max_stake_percent times the bankroll, size_dollars
\* at least the minimum trade size, and current_position plus size_shares
\* at most the maximum position.
C19_SizingCapsAsClaimed ==
    \A i \in 1..Len(trade_call) :
        trade_call[i].op = "calculate_kelly_size"
        /\ trade_call[i].result.is_valid
           => /\ RatLeq(trade_call[i].result.size_dollars,
                        RatMul(MaxBetPercent, <<bankroll, 1>>))
              /\ RatLeq(MinBetDollars, trade_call[i].result.size_dollars)
              /\ RatLeq(RatAdd(trade_call[i].current_position,
                               trade_call[i].result.size_shares),
                        MaxPosition)

\* a call that is given a market price, the price being exactly 0 or
\* exactly 1 (and, for the calculator, the confidence not 0)
AtPriceEdge(call) ==
    /\ "market_price" \in DOMAIN call
    /\ call.market_price \in {RatZero, RatOne}
    /\ call.op = "calculate_edge_simple" => call.confidence # RatZero

\* C20: at a market price of exactly 0 or exactly 1 the edge and sizing
\* operations return a defined result instead of raising a division by
\* zero: calculate_edge a Kelly fraction of at most 0.25, the sizer a
\* PositionSize, the others their value.
C20_PriceEdgesGuardedAsClaimed ==
    \A i \in 1..Len(trade_call) :
        AtPriceEdge(trade_call[i])
           => /\ ~trade_call[i].raised
              /\ trade_call[i].op = "calculate_edge"
                    => RatLeq(trade_call[i].result.kelly_fraction,
                              Hundredths(25))
              /\ trade_call[i].op = "calculate_size_from_edge"
                    => Len(trade_call[i].result) = 1

-----------------------------------------------------------------------------
(* Further properties of the engine *)

\* a step of any of the three updates of ProbabilityEngineV2
EngineUpdateStep ==
    \/ \E state \in EngineStates : CalculateFromState(state)
    \/ \E event_type \in EngineEventTypes, team \in {1, 2},
          context \in EngineContexts :
            UpdateFromEvent(event_type, team, context)
    \/ \E fight \in EngineFights, context \in EngineFightContexts :
            UpdateFromFight(fight[1], fight[2], context)

\* a step of ProbabilityEngineV2.reset
EngineResetStep == \E keep_priors \in BOOLEAN : Reset(keep_priors)

\* C21: every engine update (update_from_event, update_from_fight,
\* calculate_from_state) produces a snapshot and appends it to the
\* probability history; whatever is done short of a reset, the entries
\* the history holds stay where they are and as they are.
C21_HistoryAsClaimed ==
    [][ /\ EngineUpdateStep
           => /\ snapshot' # <<>>
              /\ probability_history' =
                     probability_history \o snapshot'
        /\ DrivesV2 /\ ~EngineResetStep
           => /\ Len(probability_history') >= Len(probability_history)
              /\ \A i \in 1..Len(probability_history) :
                     probability_history'[i] = probability_history[i]
      ]_vars

\* the floor of std_dev (lines 436 and 673)
StdDevFloor == 30000

\* C22: across the operations of one game std_dev never increases from one
\* snapshot to the next and never falls below its floor of 0.03, and the
\* confidence stays in [0, 1]: the snapshots of the history are in
\* non-increasing order of std_dev, a snapshot returned right after
\* another has no larger std_dev, setting the series context does not raise
\* the std_dev the next snapshot starts from, and every snapshot and the
\* engine itself keep to the floor and to the range of the confidence.
C22_UncertaintyAsClaimed ==
    /\ [](/\ \A i \in 1..Len(probability_history) - 1 :
                probability_history[i + 1].std_dev
                    <= probability_history[i].std_dev
          /\ \A i \in 1..Len(probability_history) :
                /\ probability_history[i].std_dev >= StdDevFloor
                /\ probability_history[i].confidence \in 0..One
          /\ \A i \in 1..Len(snapshot) :
                /\ snapshot[i].std_dev >= StdDevFloor
                /\ snapshot[i].confidence \in 0..One
          /\ std_dev >= StdDevFloor
          /\ confidence \in 0..One)
    /\ [][ /\ (DrivesV2 /\ ~EngineResetStep
                  /\ snapshot # <<>> /\ snapshot' # <<>>)
                  => snapshot'[1].std_dev <= snapshot[1].std_dev
           /\ (\E series_state \in EngineSeriesStates :
                   SetSeriesContext(series_state))
                  => std_dev' <= std_dev ]_vars

\* C23: both update paths update the momentum tracker: a call of
\* calculate_from_state, as a call of update_from_event, leaves the
\* tracker (its window of events and its clock) different from what it
\* was.
C23_BothPathsAsClaimed ==
    [][ /\ (\E state \in EngineStates : CalculateFromState(state))
               => momentum_vars' # momentum_vars
        /\ (\E event_type \in EngineEventTypes, team \in {1, 2},
               context \in EngineContexts :
                 UpdateFromEvent(event_type, team, context))
               => momentum_vars' # momentum_vars ]_vars

-----------------------------------------------------------------------------
(* The full recompute over a range of gold leads: both engines are given *)
(* game states at minute 20 that differ in the gold lead of team 1 only  *)

\* the gold leads tried, each the double of the one before
GoldLeads == {0, 4000, 8000, 16000, 32000}

\* the game states of calculate_from_state, one for each lead
GoldStates ==
    { [DefaultGameState EXCEPT !.game_time_seconds = 1200,
                               !.team1_gold = 50000 + lead,
                               !.team2_gold = 50000] : lead \in GoldLeads }

\* the same for the first engine, the net worth following the gold
V1GoldStates(g) ==
    { GameState(g, 1200,
          [DefaultTeam EXCEPT !.gold = 50000 + lead,
                              !.net_worth = 50000 + lead],
          [DefaultTeam EXCEPT !.gold = 50000, !.net_worth = 50000]) :
      lead \in GoldLeads }

RecomputeNext ==
    \/ \E state \in GoldStates : CalculateFromState(state)
    \/ \E state \in V1GoldStates(game) : V1CalculateFromState(state)

SpecRecompute == EngineInit /\ [][RecomputeNext]_vars

\* EnhancedGameState.gold_diff
GoldDiff(state) == state.team1_gold - state.team2_gold

\* the largest size of what _sigmoid_adjustment returns (line 300)
SigmoidBound == 400000

\* C24: in the full recompute the gold contribution is a bounded,
\* non-linear transform of the gold lead: doubling a lead less than
\* doubles the gold component (equal increments of lead add less and
\* less), for calculate_from_state of either engine, and the gold
\* adjustment of the first engine stays within its bound of 0.4.
C24_GoldAsClaimed ==
    [][ /\ \A s1 \in GoldStates, s2 \in GoldStates :
             ( /\ calc_state = <<s1>>
               /\ CalculateFromState(s2)
               /\ GoldDiff(s1) > 0
               /\ GoldDiff(s2) = 2 * GoldDiff(s1) )
             => snapshot'[1].gold_component
                    < 2 * snapshot[1].gold_component
        /\ \A s1 \in V1GoldStates(game), s2 \in V1GoldStates(game) :
             ( /\ calc_state = <<s1>>
               /\ V1CalculateFromState(s2)
               /\ StateGoldDiff(s1) > 0
               /\ StateGoldDiff(s2) = 2 * StateGoldDiff(s1) )
             => /\ SigmoidAdjustment(StateGoldDiff(s2), GoldScale(game))
                      < 2 * SigmoidAdjustment(StateGoldDiff(s1),
                                              GoldScale(game))
                /\ SigmoidAdjustment(StateGoldDiff(s2), GoldScale(game))
                      <= SigmoidBound ]_vars

-----------------------------------------------------------------------------
(* _apply_probability_scaling applied on its own to nominal impacts and  *)
(* current probabilities over the whole range                            *)

\* nominal impacts, in millionths, of either sign and none
ScalingImpacts == {-150000, -80000, -30000, 0, 30000, 80000, 150000}

\* current probabilities: every twentieth from 0 to 1
ScalingProbs == { (n * One) \div ProbDen : n \in 0..ProbDen }

\* self._apply_probability_scaling(impact, current_prob)
ApplyScaling(impact, prob) ==
    /\ scaling_call' =
           << [impact |-> impact, current_prob |-> prob,
               result |-> ApplyProbabilityScaling(impact, prob)] >>
    /\ UNCHANGED <<series_vars, game, curve_vars, momentum_vars, impact_vars,
                   engine_vars, v1_vars, calc_state, trading_vars,
                   risk_vars, paper_vars>>

ScalingNext ==
    \E impact \in ScalingImpacts, prob \in ScalingProbs :
        ApplyScaling(impact, prob)

SpecScaling == EngineInit /\ [][ScalingNext]_vars

\* how far a probability is from one half
Extremity(prob) == Abs(prob - 500000)

\* C25: the factor applied to an event's impact is 1 at a current
\* probability of one half (the impact comes back as it is), does not grow
\* as the probability moves away from one half, and is never below 0.4:
\* the scaled impact has the sign of the nominal impact and a size between
\* 40% and 100% of it.
C25_ExtremityScaling ==
    /\ [](\A i \in 1..Len(scaling_call) :
            LET call == scaling_call[i]
            IN  /\ call.current_prob = 500000 => call.result = call.impact
                /\ Sign(call.result) = Sign(call.impact)
                /\ Abs(call.result) <= Abs(call.impact)
                /\ Abs(call.result) >= Mul(Abs(call.impact), 400000))
    /\ [][ ( /\ scaling_call # <<>>
             /\ scaling_call' # <<>>
             /\ scaling_call'[1].impact = scaling_call[1].impact
             /\ Extremity(scaling_call'[1].current_prob)
                    >= Extremity(scaling_call[1].current_prob) )
           => Abs(scaling_call'[1].result) <= Abs(scaling_call[1].result)
       ]_vars

\* an impact of 0.08 scaled at a current probability of 0.95 comes back as
\* 0.0476, the factor being 1 - 2 * 0.45^2 = 0.595
C25_Witness ==
    /\ scaling_call # <<>>
    /\ scaling_call[1].impact = 80000
    /\ scaling_call[1].current_prob = 950000
    /\ scaling_call[1].result = 47600

\* C26: after reset(keep_priors = True) the current probability is the
\* stored prior, the game time and events_processed are 0, and the momentum
\* window, the streak history of the impact calculator and the probability
\* history are empty; after reset(keep_priors = False) the prior and the
\* current probability are 0.5 as well and both ratings 1500.
C26_ResetBetweenGames ==
    [][ /\ EngineResetStep => /\ current_prob' = prior_prob'
                              /\ engine_game_time' = 0
                              /\ events_processed' = 0
                              /\ mt_events' = <<>>
                              /\ recent_events' = <<>>
                              /\ probability_history' = <<>>
        /\ Reset(TRUE) => /\ current_prob' = prior_prob
                          /\ team1_strength' = team1_strength
                          /\ team2_strength' = team2_strength
        /\ Reset(FALSE) => /\ prior_prob' = 500000
                           /\ current_prob' = 500000
                           /\ team1_strength' = 1500
                           /\ team2_strength' = 1500 ]_vars

\* the engine after reset(keep_priors = True) in a series at match point:
\* the prior of the ratings is kept and is the current probability, the
\* widened std_dev of set_series_context is back at 0.15 and nothing is
\* left of the game
C26_Witness ==
    /\ DrivesV2
    /\ series_context # <<>>
    /\ std_dev = 150000
    /\ prior_prob # 500000
    /\ current_prob = prior_prob
    /\ team1_strength # 1500
    /\ engine_game_time = 0
    /\ events_processed = 0
    /\ probability_history = <<>>
    /\ mt_events = <<>>
    /\ recent_events = <<>>

\* C27: from every reachable state of the engine, also directly after
\* set_team_prior with any pair of ratings, update_from_event credited to
\* team 1 never lowers team1_prob and update_from_event credited to team 2
\* never raises it.
C27_EventDirectionAsClaimed ==
    [][ \A event_type \in EngineEventTypes, context \in EngineContexts :
          /\ UpdateFromEvent(event_type, 1, context)
                 => current_prob' >= current_prob
          /\ UpdateFromEvent(event_type, 2, context)
                 => current_prob' <= current_prob ]_vars

-----------------------------------------------------------------------------
(* Further properties of SeriesState *)

\* C28: once is_series_over is true, series_winner keeps the value of the
\* team that reached the win threshold first, whatever further calls of
\* record_game_win are made.
C28_WinnerStableAsClaimed ==
    [][ IsSeriesOver =>
          /\ (SeriesWinner = 1) => team1_wins' >= GamesToWin(format)
          /\ (SeriesWinner = 2) => /\ team2_wins' >= GamesToWin(format)
                                   /\ team1_wins' < GamesToWin(format) ]_vars

-----------------------------------------------------------------------------
(* RiskManager (trading/risk_manager.py:67-341), money in cents: a size  *)
(* is a number of shares, a price is in cents a share                    *)

\* how many calls of record_trade and close_position a run makes
MaxRiskSteps == 2

\* RiskLimits, the dataclass defaults (lines 43-50)
MaxPositionPerMarket == 50000
MaxTotalExposure == 200000
MaxDailyLoss == 10000
MaxTradeLoss == 5000
MaxDrawdownPercent == 10
MaxTradesPerHour == 50

\* the thresholds of get_risk_level, percent (lines 250-271)
CriticalPercent == 8
HighPercent == 5
MediumPercent == 2
HighExposurePercent == 150
MediumExposurePercent == 100

\* size and price of the trades tried: 10 dollars and 60 dollars
RiskTrades == {<<20, 50>>, <<120, 50>>}
\* size and price of the trades recorded: 10 dollars
RecordedTrades == {<<20, 50>>}
Sides == {"BUY", "SELL"}
\* realized P&L of a trade or of a closed position: -90, 0 and 30 dollars
RiskPnls == {-9000, 0, 3000}

\* what a call of the risk manager leaves alone
risk_frame == <<series_vars, game, curve_vars, momentum_vars, impact_vars,
                engine_vars, v1_vars, calc_state, trading_vars,
                scaling_call, paper_vars>>

\* sum(abs(v) for v in self.positions.values())
RECURSIVE SumAbs(_, _)
SumAbs(book, markets) ==
    IF markets = {} THEN 0
    ELSE LET m == CHOOSE x \in markets : TRUE
         IN  Abs(book[m]) + SumAbs(book, markets \ {m})

\* (drawdown / self.metrics.peak_equity) * 100
DrawdownPercent(peak, equity) == RatNorm(<<(peak - equity) * 100, peak>>)

\* RiskManager.get_risk_level
GetRiskLevel(drawdown, pnl, exposure) ==
    IF RatLess(<<CriticalPercent, 1>>, drawdown) THEN "critical"
    ELSE IF RatLess(<<HighPercent, 1>>, drawdown) THEN "high"
    ELSE IF RatLess(<<MediumPercent, 1>>, drawdown) THEN "medium"
    ELSE IF Abs(pnl) * 100 > CriticalPercent * InitialEquity THEN "critical"
    ELSE IF Abs(pnl) * 100 > HighPercent * InitialEquity THEN "high"
    ELSE IF Abs(pnl) * 100 > MediumPercent * InitialEquity THEN "medium"
    ELSE IF exposure * 100 > HighExposurePercent * InitialEquity THEN "high"
    ELSE IF exposure * 100 > MediumExposurePercent * InitialEquity
         THEN "medium"
    ELSE "low"

\* the reason check_trade gives in an active state, "OK" when it allows the
\* trade; pnl is the daily P&L after _check_daily_reset and in_hour the
\* number of trades of the last hour
CheckReason(size, price, market_id, side, pnl, in_hour) ==
    LET trade_value == size * price
        current_exposure == risk_positions[market_id]
        new_exposure == IF side = "BUY"
                        THEN current_exposure + trade_value
                        ELSE current_exposure - trade_value
    IN  IF Abs(new_exposure) > MaxPositionPerMarket
        THEN "market position limit"
        ELSE IF total_exposure + trade_value > MaxTotalExposure
        THEN "total exposure limit"
        ELSE IF pnl < -MaxDailyLoss THEN "daily loss limit"
        ELSE IF trade_value > MaxTradeLoss THEN "potential loss"
        ELSE IF RatLess(<<MaxDrawdownPercent, 1>>, current_drawdown)
        THEN "max drawdown"
        ELSE IF ~(in_hour < MaxTradesPerHour) THEN "rate limit"
        ELSE "OK"

\* RiskManager.check_trade; new_day: the date has changed since the last
\* daily reset; expired: how many of the recorded trade times, the oldest
\* ones, are older than one hour and are dropped by _check_rate_limit
CheckTrade(size, price, market_id, side, new_day, expired) ==
    IF risk_state # "active"
    THEN /\ risk_call' = << [allowed |-> FALSE, reason |-> "state"] >>
         /\ UNCHANGED <<risk_state, current_equity, risk_positions,
                        risk_open, total_exposure, daily_pnl, daily_trades,
                        hourly_trades, current_drawdown, max_drawdown,
                        peak_equity, trade_times, risk_steps,
                        emergency_stopped, risk_frame>>
    ELSE \E pnl \in {IF new_day THEN 0 ELSE daily_pnl},
            in_hour \in {trade_times - expired} :
           \E reason \in {CheckReason(size, price, market_id, side, pnl,
                                      in_hour)} :
             /\ daily_pnl' = pnl
             /\ daily_trades' = IF new_day THEN 0 ELSE daily_trades
             /\ trade_times' = IF reason \in {"rate limit", "OK"}
                               THEN in_hour ELSE trade_times
             /\ hourly_trades' = IF reason \in {"rate limit", "OK"}
                                 THEN in_hour ELSE hourly_trades
             /\ risk_call' = << [allowed |-> reason = "OK",
                                 reason |-> reason] >>
             /\ UNCHANGED <<risk_state, current_equity, risk_positions,
                            risk_open, total_exposure, current_drawdown,
                            max_drawdown, peak_equity, risk_steps,
                            emergency_stopped, risk_frame>>

\* RiskManager.record_trade, with _check_auto_pause
RecordTrade(market_id, size, price, side, pnl) ==
    /\ risk_steps < MaxRiskSteps
    /\ risk_steps' = risk_steps + 1
    /\ \E book \in {[risk_positions EXCEPT ![market_id] =
                        IF side = "BUY" THEN @ + size * price
                        ELSE @ - size * price]},
          equity \in {current_equity + pnl} :
         \E peak \in {Max(peak_equity, equity)} :
           /\ risk_positions' = book
           /\ risk_open' = risk_open \cup {market_id}
           /\ total_exposure' = SumAbs(book, Markets)
           /\ daily_pnl' = daily_pnl + pnl
           /\ current_equity' = equity
           /\ peak_equity' = peak
           /\ current_drawdown' = DrawdownPercent(peak, equity)
           /\ max_drawdown' = RatMax(max_drawdown,
                                     DrawdownPercent(peak, equity))
           /\ daily_trades' = daily_trades + 1
           /\ trade_times' = trade_times + 1
           /\ risk_state' =
                  IF GetRiskLevel(DrawdownPercent(peak, equity),
                                  daily_pnl + pnl,
                                  SumAbs(book, Markets)) = "critical"
                  THEN "paused" ELSE risk_state
    /\ UNCHANGED <<hourly_trades, risk_call, emergency_stopped, risk_frame>>

\* RiskManager.close_position
ClosePosition(market_id, pnl) ==
    /\ risk_steps < MaxRiskSteps
    /\ risk_steps' = risk_steps + 1
    /\ \E book \in {[risk_positions EXCEPT ![market_id] = 0]},
          equity \in {current_equity + pnl} :
         \E peak \in {Max(peak_equity, equity)} :
           /\ risk_positions' = book
           /\ risk_open' = risk_open \ {market_id}
           /\ total_exposure' = SumAbs(book, Markets)
           /\ daily_pnl' = daily_pnl + pnl
           /\ current_equity' = equity
           /\ peak_equity' = peak
           /\ current_drawdown' = DrawdownPercent(peak, equity)
    /\ UNCHANGED <<risk_state, daily_trades, hourly_trades, max_drawdown,
                   trade_times, risk_call, emergency_stopped, risk_frame>>

\* what a change of the trading state leaves alone
risk_metrics == <<current_equity, risk_positions, risk_open, total_exposure,
                  daily_pnl, daily_trades, hourly_trades, current_drawdown,
                  max_drawdown, peak_equity, trade_times, risk_call,
                  risk_steps>>

\* RiskManager.pause_trading
PauseTrading ==
    /\ risk_state' = "paused"
    /\ UNCHANGED <<risk_metrics, emergency_stopped, risk_frame>>

\* RiskManager.resume_trading
ResumeTrading ==
    /\ risk_state' = IF risk_state = "paused" THEN "active" ELSE risk_state
    /\ UNCHANGED <<risk_metrics, emergency_stopped, risk_frame>>

\* RiskManager.emergency_stop
EmergencyStop ==
    /\ risk_state' = "killed"
    /\ emergency_stopped' = TRUE
    /\ UNCHANGED <<risk_metrics, risk_frame>>

CheckTradeStep ==
    \E trade \in RiskTrades, market_id \in Markets, side \in Sides, new_day \in BOOLEAN, expired \in 0..trade_times : CheckTrade(trade[1], trade[2], market_id, side, new_day, expired)

RiskInit ==
    /\ game = "lol"
    /\ SeriesIdle
    /\ CurveIdle
    /\ MomentumIdle
    /\ ImpactIdle
    /\ EnginesIdle

RiskNext ==
    \/ CheckTradeStep
    \/ \E trade \in RecordedTrades, market_id \in Markets, side \in Sides, pnl \in RiskPnls : RecordTrade(market_id, trade[1], trade[2], side, pnl)
    \/ \E market_id \in Markets, pnl \in RiskPnls : ClosePosition(market_id, pnl)
    \/ PauseTrading
    \/ ResumeTrading
    \/ EmergencyStop

SpecRisk == RiskInit /\ [][RiskNext]_vars

RiskTypeOK ==
    /\ risk_state \in {"active", "paused", "stopped", "killed"}
    /\ total_exposure = SumAbs(risk_positions, Markets)
    /\ peak_equity >= current_equity
    /\ Len(risk_call) <= 1

\* C29: once emergency_stop has been called, the state stays KILLED under
\* every later sequence of record_trade, close_position, pause_trading and
\* resume_trading calls, and check_trade never again returns allowed.
C29_KillSwitchAsClaimed ==
    /\ [](emergency_stopped => risk_state = "killed")
    /\ [][ (emergency_stopped /\ CheckTradeStep)
              => ~risk_call'[1].allowed ]_vars

-----------------------------------------------------------------------------
(* PaperTrader (trading/paper_trader.py:71-442): execute_trade with      *)
(* _update_position, and close_position                                  *)

\* how many trades a run executes
MaxPaperTrades == 2

\* the signals executed: recommended_size in shares, 0 for a signal
\* without a size, and market_price
PaperSizes == {0, 10, 20}
PaperPrices == {<<1, 4>>, <<1, 2>>}
\* a binary market settles at 0 or at 1
SettlementPrices == {<<0, 1>>, <<1, 1>>}

\* what a call of the paper trader leaves alone
paper_frame == <<series_vars, game, curve_vars, momentum_vars, impact_vars,
                 engine_vars, v1_vars, calc_state, trading_vars,
                 scaling_call, risk_vars>>

\* a whole number of shares or dollars as a fraction
Whole(n) == <<n, 1>>

\* PaperTrader._update_position for a position that is in the dictionary
UpdatedPosition(position, side, filled_size, filled_price) ==
    IF side = "BUY"
    THEN LET new_size == position.size + filled_size
             total_cost == RatAdd(RatMul(Whole(position.size),
                                         position.avg_price),
                                  RatMul(Whole(filled_size), filled_price))
         IN  [ size |-> new_size,
               avg_price |->
                   IF position.size >= 0
                   THEN IF new_size > 0
                        THEN RatDiv(total_cost, Whole(new_size))
                        ELSE <<0, 1>>
                   ELSE filled_price,
               current_price |-> filled_price ]
    ELSE LET new_size == position.size - filled_size
             total_cost == RatAdd(RatMul(Whole(Abs(position.size)),
                                         position.avg_price),
                                  RatMul(Whole(filled_size), filled_price))
         IN  [ size |-> new_size,
               avg_price |->
                   IF position.size <= 0
                   THEN IF new_size # 0
                        THEN RatDiv(total_cost, Whole(Abs(new_size)))
                        ELSE <<0, 1>>
                   ELSE IF new_size < 0 THEN filled_price
                   ELSE position.avg_price,
               current_price |-> filled_price ]

\* PaperTrader.execute_trade for a signal with the given side, size and
\* market price on the market of its match
ExecuteTrade(market_id, side, size, price) ==
    IF size <= 0
    THEN /\ paper_call' = << [op |-> "execute_trade", result |-> "None"] >>
         /\ UNCHANGED <<paper_bankroll, sizer_bankroll, paper_positions,
                        paper_open, paper_trades, total_trades,
                        total_volume, total_pnl, winning_trades,
                        losing_trades, largest_win, largest_loss,
                        last_trade_time, paper_frame>>
    ELSE /\ total_trades < MaxPaperTrades
         /\ \E cost \in {RatMul(Whole(size), price)} :
              \E cash \in {IF side = "BUY" THEN RatSub(paper_bankroll, cost)
                           ELSE RatAdd(paper_bankroll, cost)} :
                /\ paper_positions' =
                       [paper_positions EXCEPT ![market_id] =
                           UpdatedPosition(@, side, size, price)]
                /\ paper_open' = paper_open \cup {market_id}
                /\ paper_bankroll' = cash
                /\ sizer_bankroll' = cash
                /\ total_volume' = RatAdd(total_volume, cost)
         /\ paper_trades' = Append(paper_trades,
                                   [market_id |-> market_id, side |-> side,
                                    size |-> size, price |-> price])
         /\ total_trades' = total_trades + 1
         /\ last_trade_time' = last_trade_time \cup {market_id}
         /\ paper_call' = << [op |-> "execute_trade", result |-> "Trade"] >>
         /\ UNCHANGED <<total_pnl, winning_trades, losing_trades,
                        largest_win, largest_loss, paper_frame>>

\* the P&L close_position computes for a position that is not flat
ClosingPnl(position, settlement_price) ==
    IF position.size > 0
    THEN RatMul(Whole(position.size),
                RatSub(settlement_price, position.avg_price))
    ELSE RatMul(Whole(Abs(position.size)),
                RatSub(position.avg_price, settlement_price))

\* PaperTrader.close_position
PaperClosePosition(market_id, settlement_price) ==
    IF market_id \notin paper_open
    THEN /\ paper_call' = << [op |-> "close_position",
                              result |-> <<0, 1>>] >>
         /\ UNCHANGED <<paper_bankroll, sizer_bankroll, paper_positions,
                        paper_open, paper_trades, total_trades,
                        total_volume, total_pnl, winning_trades,
                        losing_trades, largest_win, largest_loss,
                        last_trade_time, paper_frame>>
    ELSE IF paper_positions[market_id].size = 0
    THEN /\ paper_positions' =
                [paper_positions EXCEPT ![market_id] = FlatPosition]
         /\ paper_open' = paper_open \ {market_id}
         /\ paper_call' = << [op |-> "close_position",
                              result |-> <<0, 1>>] >>
         /\ UNCHANGED <<paper_bankroll, sizer_bankroll, paper_trades,
                        total_trades, total_volume, total_pnl,
                        winning_trades, losing_trades, largest_win,
                        largest_loss, last_trade_time, paper_frame>>
    ELSE \E position \in {paper_positions[market_id]} :
           \E pnl \in {ClosingPnl(position, settlement_price)} :
             \E cash \in {RatAdd(paper_bankroll,
                              RatAdd(RatMul(Whole(Abs(position.size)),
                                            position.avg_price), pnl))} :
               /\ total_pnl' = RatAdd(total_pnl, pnl)
               /\ winning_trades' = IF RatLess(<<0, 1>>, pnl)
                                    THEN winning_trades + 1
                                    ELSE winning_trades
               /\ largest_win' = IF RatLess(<<0, 1>>, pnl)
                                 THEN RatMax(largest_win, pnl)
                                 ELSE largest_win
               /\ losing_trades' = IF RatLess(pnl, <<0, 1>>)
                                   THEN losing_trades + 1
                                   ELSE losing_trades
               /\ largest_loss' = IF RatLess(pnl, <<0, 1>>)
                                  THEN RatMin(largest_loss, pnl)
                                  ELSE largest_loss
               /\ paper_bankroll' = cash
               /\ sizer_bankroll' = cash
               /\ paper_positions' =
                      [paper_positions EXCEPT ![market_id] = FlatPosition]
               /\ paper_open' = paper_open \ {market_id}
               /\ paper_call' = << [op |-> "close_position",
                                    result |-> pnl] >>
               /\ UNCHANGED <<paper_trades, total_trades, total_volume,
                              last_trade_time, paper_frame>>

\* PaperTrader.reset
PaperReset ==
    /\ paper_bankroll' = <<InitialBankroll, 1>>
    /\ sizer_bankroll' = <<InitialBankroll, 1>>
    /\ paper_positions' = [m \in Markets |-> FlatPosition]
    /\ paper_open' = {}
    /\ paper_trades' = <<>>
    /\ total_trades' = 0
    /\ total_volume' = <<0, 1>>
    /\ total_pnl' = <<0, 1>>
    /\ winning_trades' = 0
    /\ losing_trades' = 0
    /\ largest_win' = <<0, 1>>
    /\ largest_loss' = <<0, 1>>
    /\ last_trade_time' = {}
    /\ paper_call' = << [op |-> "reset", result |-> "None"] >>
    /\ UNCHANGED paper_frame

PaperNext ==
    \/ PaperReset
    \/ \E market_id \in Markets, side \in Sides, size \in PaperSizes, price \in PaperPrices : ExecuteTrade(market_id, side, size, price)
    \/ \E market_id \in Markets, settlement_price \in SettlementPrices : PaperClosePosition(market_id, settlement_price)

SpecPaper == RiskInit /\ [][PaperNext]_vars

PaperTypeOK ==
    /\ Len(paper_trades) = total_trades
    /\ sizer_bankroll = paper_bankroll
    /\ \A m \in Markets \ paper_open : paper_positions[m] = FlatPosition
    /\ Len(paper_call) <= 1

\* C30: after any sequence of execute_trade calls, BUY or SELL, followed by
\* close_position on every open market, with no position left open the
\* bankroll is initial_bankroll plus the sum of the realized P&L values
\* that close_position returned (which stats.total_pnl adds up).
C30_CashConservedAsClaimed ==
    paper_open = {}
        => paper_bankroll = RatAdd(<<InitialBankroll, 1>>, total_pnl)

=============================================================================
